---------------------------- MODULE Spec2Model ----------------------------
(***************************************************************************)
(* Model of the document text-extraction pipeline of                       *)
(* src/src/services/pdf-parser-service.ts (class PdfParserService).        *)
(*                                                                         *)
(* Data representation.  A buffer is a sequence of bytes (0..255).  A      *)
(* JavaScript string is a sequence of UTF-16 code units, written here as   *)
(* numbers ("A" is 65, "가" is 44032); file names and every text the       *)
(* service produces are such sequences.  Enumerated tags (fileType,        *)
(* mimeType, extraction_method) are TLA+ strings.                          *)
(*                                                                         *)
(* The libraries the service calls (pdf-parse, pdf-lib, JSZip) are not     *)
(* part of the repository: each call is an await point whose outcome       *)
(* (throws, or returns one of a few values) is chosen by the environment.  *)
(*                                                                         *)
(* Scans over a text are written so that the depth of recursion grows      *)
(* with the number of matches and the logarithm of the length, not with    *)
(* the length.                                                             *)
(***************************************************************************)
EXTENDS Integers, Sequences, FiniteSets, TLC

(***************************************************************************)
(* Bounds of the model.                                                    *)
(***************************************************************************)
\* a buffer is the concatenation of at most MaxFrags fragments
MaxFrags == 2
\* the page counts the PDF libraries report range over 0..MaxPages
MaxPages == 2

(***************************************************************************)
(* JavaScript string primitives.                                           *)
(***************************************************************************)
\* ECMAScript WhiteSpace and LineTerminator code units: what \s matches and
\* what String.prototype.trim removes
WhiteSet ==
  {9, 10, 11, 12, 13, 32, 160, 5760, 8232, 8233, 8239, 8287, 12288, 65279}
    \cup (8192..8202)
\* the line terminators: what . does not match, what ^ and $ look for
LineEndSet == {10, 13, 8232, 8233}
DigitSet == 48..57
UpperSet == 65..90
LowerSet == 97..122
\* \w
WordSet == DigitSet \cup UpperSet \cup LowerSet \cup {95}
\* 가-힣
HangulSet == 44032..55203

Indices(s) == [i \in 1..Len(s) |-> i]

\* the first index in lo..hi of s whose unit is outside class, hi+1 if none
FirstOutside(s, lo, hi, class) ==
  IF \E i \in lo..hi : s[i] \notin class
    THEN CHOOSE i \in lo..hi :
           s[i] \notin class /\ \A j \in lo..(i - 1) : s[j] \in class
    ELSE hi + 1

\* where a greedy run [class]* that starts at i stops: the first index >= i
\* of s whose unit is outside class, Len(s)+1 if none
Span(s, i, class) == IF i > Len(s) THEN i ELSE FirstOutside(s, i, Len(s), class)

\* the first index in lo..hi of s whose unit is in class, hi+1 if none
FirstInside(s, lo, hi, class) ==
  IF \E i \in lo..hi : s[i] \in class
    THEN CHOOSE i \in lo..hi :
           s[i] \in class /\ \A j \in lo..(i - 1) : s[j] \notin class
    ELSE hi + 1

\* where a greedy run [^class]* that starts at i stops
SpanNot(s, i, class) == IF i > Len(s) THEN i ELSE FirstInside(s, i, Len(s), class)

\* the last index in lo..hi of s whose unit is outside class, 0 if none
LastOutside(s, lo, hi, class) ==
  IF \E i \in lo..hi : s[i] \notin class
    THEN CHOOSE i \in lo..hi :
           s[i] \notin class /\ \A j \in (i + 1)..hi : s[j] \in class
    ELSE 0

\* the last index in lo..hi of s whose unit is in class, 0 if none
LastInside(s, lo, hi, class) ==
  IF \E i \in lo..hi : s[i] \in class
    THEN CHOOSE i \in lo..hi :
           s[i] \in class /\ \A j \in (i + 1)..hi : s[j] \notin class
    ELSE 0

\* String.prototype.trim
Trim(s) ==
  LET a == Span(s, 1, WhiteSet)
      b == LastOutside(s, 1, Len(s), WhiteSet)
  IN  IF a > b THEN <<>> ELSE SubSeq(s, a, b)

\* literal lit occurs in s at index i
MatchAt(s, i, lit) ==
  /\ i >= 1
  /\ i + Len(lit) - 1 <= Len(s)
  /\ SubSeq(s, i, i + Len(lit) - 1) = lit

\* String.prototype.endsWith
EndsWith(s, suffix) == MatchAt(s, Len(s) - Len(suffix) + 1, suffix)

\* String.prototype.includes
Includes(s, sub) == \E i \in 1..(Len(s) + 1) : MatchAt(s, i, sub)

\* String.prototype.toLowerCase on the code units the model uses (ASCII
\* letters are folded, Hangul, digits and punctuation have no case)
ToLowerCase(s) ==
  [i \in 1..Len(s) |-> IF s[i] \in UpperSet THEN s[i] + 32 ELSE s[i]]

\* substring that keeps the whole string: not the code's
WholeString(s, n) == s

\* String.prototype.substring(0, n)
Substring0(s, n) == IF Len(s) <= n THEN s ELSE SubSeq(s, 1, n)

\* s.replace(/\s+/g, ' '): of every white run the first unit is kept, as a
\* space
CollapseWhite(s) ==
  LET Units(kept) ==
        SubSeq([k \in 1..Len(kept) |-> IF s[kept[k]] \in WhiteSet THEN 32 ELSE s[kept[k]]],
               1, Len(kept))
  IN  IF Len(s) = 0 THEN <<>>
      ELSE Units(SelectSeq(Indices(s),
                   LAMBDA i : s[i] \notin WhiteSet \/ i = 1 \/ s[i - 1] \notin WhiteSet))

\* s.replace(/[class]/g, '')
RemoveUnits(s, class) == SelectSeq(s, LAMBDA c : c \notin class)

\* s.replace(/[^class]/g, '')
KeepUnits(s, class) == SelectSeq(s, LAMBDA c : c \in class)

\* parts[lo] \o sep \o ... \o parts[hi]
RECURSIVE JoinRange(_, _, _, _)
JoinRange(parts, lo, hi, sep) ==
  IF lo > hi THEN <<>>
  ELSE IF lo = hi THEN parts[lo]
  ELSE LET mid == (lo + hi) \div 2
       IN  JoinRange(parts, lo, mid, sep) \o sep
             \o JoinRange(parts, mid + 1, hi, sep)

\* Array.prototype.join
Join(parts, sep) ==
  IF Len(parts) = 0 THEN <<>> ELSE JoinRange(parts, 1, Len(parts), sep)

\* parts.map(text => text.trim())
TrimEach(parts) == [n \in 1..Len(parts) |-> Trim(parts[n])]

\* parts.filter(text => text && text.trim().length > min)
\*      .map(text => text.trim())
TrimmedLongerThan(parts, min) ==
  IF Len(parts) = 0 THEN <<>>
  ELSE SelectSeq(TrimEach(parts), LAMBDA t : Len(t) > min)

\* text.split(/\s+/).length: one more than the number of white runs
WordCount(s) ==
  1 + Len(SelectSeq(Indices(s),
            LAMBDA i : s[i] \in WhiteSet /\ (i = 1 \/ s[i - 1] \notin WhiteSet)))

(***************************************************************************)
(* TextDecoder('utf-8'), the WHATWG decoder.  Utf8Step decodes the         *)
(* sequence that starts at byte i: ok is FALSE for an invalid sequence,    *)
(* which yields U+FFFD, and next is the index decoding resumes at (the     *)
(* offending byte is read again).                                          *)
(***************************************************************************)
IsCont(b, i, lo, hi) == i <= Len(b) /\ b[i] >= lo /\ b[i] <= hi

\* the number of continuation bytes the lead byte c announces, 0 if c is no
\* lead byte
Utf8Need(c) ==
  IF c >= 194 /\ c <= 223 THEN 1
  ELSE IF c >= 224 /\ c <= 239 THEN 2
  ELSE IF c >= 240 /\ c <= 244 THEN 3
  ELSE 0

\* the range of the first continuation byte after the lead byte c
Utf8Lower(c) == IF c = 224 THEN 160 ELSE IF c = 240 THEN 144 ELSE 128
Utf8Upper(c) == IF c = 237 THEN 159 ELSE IF c = 244 THEN 143 ELSE 191

Utf8Step(b, i) ==
  LET c == b[i]
      need == Utf8Need(c)
  IN  IF c < 128 THEN [ok |-> TRUE, cp |-> c, next |-> i + 1]
      ELSE IF need = 0 THEN [ok |-> FALSE, cp |-> 65533, next |-> i + 1]
      ELSE IF ~IsCont(b, i + 1, Utf8Lower(c), Utf8Upper(c))
        THEN [ok |-> FALSE, cp |-> 65533, next |-> i + 1]
      ELSE IF need = 1
        THEN [ok |-> TRUE, cp |-> (c - 192) * 64 + (b[i + 1] - 128),
              next |-> i + 2]
      ELSE IF ~IsCont(b, i + 2, 128, 191)
        THEN [ok |-> FALSE, cp |-> 65533, next |-> i + 2]
      ELSE IF need = 2
        THEN [ok |-> TRUE,
              cp |-> (c - 224) * 4096 + (b[i + 1] - 128) * 64 + (b[i + 2] - 128),
              next |-> i + 3]
      ELSE IF ~IsCont(b, i + 3, 128, 191)
        THEN [ok |-> FALSE, cp |-> 65533, next |-> i + 3]
      ELSE [ok |-> TRUE,
            cp |-> (c - 240) * 262144 + (b[i + 1] - 128) * 4096
                    + (b[i + 2] - 128) * 64 + (b[i + 3] - 128),
            next |-> i + 4]

\* byte i is read as a continuation byte of the sequence that starts k bytes
\* before it.  A lead byte is never a continuation byte, so every lead byte
\* starts a sequence and the test looks back at most three bytes.
Utf8ContinuationOf(b, i, k) ==
  /\ i - k >= 1
  /\ Utf8Need(b[i - k]) >= k
  /\ Utf8Step(b, i - k).next > i

\* decoding reads a new sequence at byte i
Utf8Start(b, i) == \A k \in 1..3 : ~Utf8ContinuationOf(b, i, k)

\* the UTF-16 code units of a code point
Utf16(cp) ==
  IF cp < 65536 THEN <<cp>>
  ELSE <<55296 + ((cp - 65536) \div 1024), 56320 + ((cp - 65536) % 1024)>>

\* the buffer holds no invalid sequence: a fatal-mode decode does not throw
Utf8Valid(b) == \A i \in 1..Len(b) : Utf8Start(b, i) => Utf8Step(b, i).ok

\* new TextDecoder('utf-8', {fatal: false}).decode(bytes): invalid sequences
\* become U+FFFD, a leading byte order mark is dropped
DecodeLossy(b) ==
  LET Units(starts) ==
        Join([k \in 1..Len(starts) |-> Utf16(Utf8Step(b, starts[k]).cp)], <<>>)
      DropMark(u) == IF Len(u) > 0 /\ u[1] = 65279 THEN Tail(u) ELSE u
  IN  DropMark(Units(SelectSeq(Indices(b), LAMBDA i : Utf8Start(b, i))))

(***************************************************************************)
(* validateFileType                                                        *)
(***************************************************************************)
\* uint8Array[i] of the code (0-based): undefined, here -1, past the end
ByteAt(b, i) == IF i + 1 <= Len(b) THEN b[i + 1] ELSE -1

\* ".docx"
DocxExt == <<46, 100, 111, 99, 120>>
\* ".txt"
TxtExt == <<46, 116, 120, 116>>

\* the PDF signature test: %PDF
HasPdfMagic(b) ==
  ByteAt(b, 0) = 37 /\ ByteAt(b, 1) = 80 /\ ByteAt(b, 2) = 68 /\ ByteAt(b, 3) = 70

\* the ZIP signature test: PK
HasZipMagic(b) == ByteAt(b, 0) = 80 /\ ByteAt(b, 1) = 75

\* a DOCX rule that ignores the case of the extension: not the code's
IsDocxAnyCase(b, name) == HasZipMagic(b) /\ EndsWith(ToLowerCase(name), DocxExt)

\* the DOCX rule: the ZIP signature and the extension, compared as written
IsDocx(b, name) == HasZipMagic(b) /\ EndsWith(name, DocxExt)

\* a TXT rule that goes by the extension alone: not the code's
IsTxtByName(b, name) == EndsWith(ToLowerCase(name), TxtExt)

\* the TXT rule: the extension of the lower-cased name and a fatal-mode
\* UTF-8 decode that does not throw
IsTxt(b, name) == EndsWith(ToLowerCase(name), TxtExt) /\ Utf8Valid(b)

PdfType ==
  [isValid |-> TRUE, fileType |-> "pdf", mimeType |-> "application/pdf"]
DocxType ==
  [isValid |-> TRUE, fileType |-> "docx",
   mimeType |->
     "application/vnd.openxmlformats-officedocument.wordprocessingml.document"]
TxtType == [isValid |-> TRUE, fileType |-> "txt", mimeType |-> "text/plain"]
\* an unknown type that passes as valid: not the code's
UnknownTypeValid ==
  [isValid |-> TRUE, fileType |-> "unknown",
   mimeType |-> "application/octet-stream"]

UnknownType ==
  [isValid |-> FALSE, fileType |-> "unknown",
   mimeType |-> "application/octet-stream"]

\* a classification that tries the rules on the file name before the PDF
\* signature: not the code's
validateByNameFirst(b, name) ==
  IF IsDocx(b, name) THEN DocxType
  ELSE IF IsTxt(b, name) THEN TxtType
  ELSE IF HasPdfMagic(b) THEN PdfType
  ELSE UnknownType

validateFileType(b, name) ==
  IF HasPdfMagic(b) THEN PdfType
  ELSE IF IsDocx(b, name) THEN DocxType
  ELSE IF IsTxt(b, name) THEN TxtType
  ELSE UnknownType

(***************************************************************************)
(* Regular expressions.  A pattern is a record; MatchEnd(s, i, pat) is the *)
(* index just past the match of pat that starts at index i of s, 0 when    *)
(* none starts there.  Matches is the /g scan, which resumes after each    *)
(* match.  No pattern of the service matches the empty string.             *)
(***************************************************************************)
RECURSIVE MatchEnd(_, _, _)

\* the first index in lo..hi of s where a match of pat starts, 0 if none
FirstMatch(s, lo, hi, pat) ==
  IF \E i \in lo..hi : MatchEnd(s, i, pat) # 0
    THEN CHOOSE i \in lo..hi :
           /\ MatchEnd(s, i, pat) # 0
           /\ \A j \in lo..(i - 1) : MatchEnd(s, j, pat) = 0
    ELSE 0

\* the last index in lo..hi of s where a match of pat starts, 0 if none
LastMatch(s, lo, hi, pat) ==
  IF \E i \in lo..hi : MatchEnd(s, i, pat) # 0
    THEN CHOOSE i \in lo..hi :
           /\ MatchEnd(s, i, pat) # 0
           /\ \A j \in (i + 1)..hi : MatchEnd(s, j, pat) = 0
    ELSE 0

\* the matches of pat in s from index i on, in order: [from, end], end the
\* index just past the match
RECURSIVE Matches(_, _, _)
Matches(s, i, pat) ==
  LET Rest(m, e) ==
        IF m = 0 THEN <<>>
        ELSE <<[from |-> m, end |-> e]>> \o Matches(s, e, pat)
      From(m) == Rest(m, MatchEnd(s, m, pat))
  IN  From(FirstMatch(s, i, Len(s), pat))

\* s.match(pat): the matched substrings (null read as none)
MatchTexts(s, pat) ==
  LET Texts(ms) == [k \in 1..Len(ms) |-> SubSeq(s, ms[k].from, ms[k].end - 1)]
  IN  IF Len(s) = 0 THEN <<>> ELSE Texts(Matches(s, 1, pat))

\* s.split(pat): the pieces between the matches
Split(s, pat) ==
  LET Pieces(ms) ==
        [k \in 1..(Len(ms) + 1) |->
          SubSeq(s, IF k = 1 THEN 1 ELSE ms[k - 1].end,
                    IF k > Len(ms) THEN Len(s) ELSE ms[k].from - 1)]
  IN  IF Len(s) = 0 THEN <<s>> ELSE Pieces(Matches(s, 1, pat))

\* s.replace(pat, rep)
Replace(s, pat, rep) == IF Len(s) = 0 THEN s ELSE Join(Split(s, pat), rep)

\* the patterns
Literal(lit) == [kind |-> "literal", lit |-> lit]
\* /open[^>]*>([^<]{min,})close/
Element(open, close, min) ==
  [kind |-> "element", open |-> open, close |-> close, min |-> min]
\* /<[^>]+>/
AnyTag == [kind |-> "tag"]
\* /<w:p[^>]*>.*?<\/w:p>/s
Paragraph == [kind |-> "paragraph"]
\* /\bword\/document\.xml.*?<w:t[^>]*>([^<]+)<\/w:t>/
PathElement == [kind |-> "pathElement"]
\* />[...]{5,}<\/w:t>/
RawRun == [kind |-> "rawRun"]
\* textPatterns[n - 1] of extractWithFallbackMethod
PdfPattern(n) == [kind |-> "pdf", n |-> n]
\* /BT|ET|Tj|TJ|Tf|Td|TD/
PdfOperator == [kind |-> "operator"]
\* /^\d+(\.\d+)?\s*$/m
NumberLine == [kind |-> "numberLine"]
\* pageBreakPatterns[n - 1] of estimatePageBreaks
PageBreak(n) == [kind |-> "pageBreak", n |-> n]
\* sectionPatterns[n - 1] of identifyDocumentSections
SectionPattern(n) == [kind |-> "section", n |-> n]

\* /[a-zA-Z가-힣0-9\s.,!?()/-]+/g
PlainRun == [kind |-> "plain"]

\* the first index >= i where lit occurs in s, 0 if none
IndexOf(s, i, lit) == FirstMatch(s, i, Len(s), Literal(lit))

\* "<w:t"
WtOpen == <<60, 119, 58, 116>>
\* "</w:t>"
WtClose == <<60, 47, 119, 58, 116, 62>>
\* "<w:p"
WpOpen == <<60, 119, 58, 112>>
\* "</w:p>"
WpClose == <<60, 47, 119, 58, 112, 62>>
\* "<text"
TextOpen == <<60, 116, 101, 120, 116>>
\* "</text>"
TextClose == <<60, 47, 116, 101, 120, 116, 62>>
\* "word/document.xml"
DocumentXmlPath ==
  <<119, 111, 114, 100, 47, 100, 111, 99, 117, 109, 101, 110, 116, 46, 120,
    109, 108>>

(***************************************************************************)
(* The pieces a pattern is made of.  Each takes the index i its piece      *)
(* starts at, 0 when what precedes it did not match, and gives the index   *)
(* just past its piece, 0 when it does not match.                          *)
(***************************************************************************)
\* the literal lit
Lit(s, i, lit) == IF i # 0 /\ MatchAt(s, i, lit) THEN i + Len(lit) ELSE 0

\* the code unit c
Unit(s, i, c) == IF i # 0 /\ i <= Len(s) /\ s[i] = c THEN i + 1 ELSE 0

\* [class]{min,}, greedy
AtLeast(s, i, class, min) ==
  IF i # 0 /\ Span(s, i, class) - i >= min THEN Span(s, i, class) ELSE 0

\* [^class]{min,}, greedy
AtLeastNot(s, i, class, min) ==
  IF i # 0 /\ SpanNot(s, i, class) - i >= min THEN SpanNot(s, i, class) ELSE 0

\* .*?lit under the s flag: up to and past the first lit from i on
Lazy(s, i, lit) == IF i = 0 THEN 0 ELSE Lit(s, IndexOf(s, i, lit), lit)

\* open[^>]*> at i: the index just past the ">", 0 if no match
OpenTagEnd(s, i, open) == Unit(s, AtLeastNot(s, Lit(s, i, open), {62}, 0), 62)

\* /open[^>]*>([^<]{min,})close/ at i
ElementEnd(s, i, open, close, min) ==
  Lit(s, AtLeastNot(s, OpenTagEnd(s, i, open), {60}, min), close)

\* the group of a match of Element(open, close, min)
ElementGroup(match, open, close) ==
  SubSeq(match, OpenTagEnd(match, 1, open), Len(match) - Len(close))

\* /<[^>]+>/ at i
TagEnd(s, i) == Unit(s, AtLeastNot(s, Unit(s, i, 60), {62}, 1), 62)

\* /<w:p[^>]*>.*?<\/w:p>/s at i
ParagraphEnd(s, i) == Lazy(s, OpenTagEnd(s, i, WpOpen), WpClose)

\* \b before index i, where s[i] is a word character
WordBoundaryBefore(s, i) == i = 1 \/ s[i - 1] \notin WordSet

\* /\bword\/document\.xml.*?<w:t[^>]*>([^<]+)<\/w:t>/ at i: the index where
\* the <w:t> element starts, the first one that the lazy .*? reaches
\* without crossing a line terminator; 0 if no match
PathElementStart(s, i) ==
  IF MatchAt(s, i, DocumentXmlPath) /\ WordBoundaryBefore(s, i)
    THEN FirstMatch(s, i + Len(DocumentXmlPath),
                    SpanNot(s, i + Len(DocumentXmlPath), LineEndSet) - 1,
                    Element(WtOpen, WtClose, 1))
    ELSE 0

PathElementEnd(s, i) ==
  ElementEnd(s, PathElementStart(s, i), WtOpen, WtClose, 1)

\* the group of a match of PathElement
PathElementGroup(match) ==
  ElementGroup(SubSeq(match, PathElementStart(match, 1), Len(match)),
               WtOpen, WtClose)

\* the character class of the fourth pattern of extractDocxFallback
RawRunSet ==
  HangulSet \cup UpperSet \cup LowerSet \cup DigitSet \cup WhiteSet
    \cup {33, 34, 35, 36, 37, 38, 39, 40, 41, 42, 43, 44, 45, 46, 47, 58, 60,
          61, 62, 63, 64, 91, 92, 93, 94, 96, 123, 124, 125, 126}

\* />[class]{5,}<\/w:t>/ at i.  The class holds every character of
\* "</w:t>", so the greedy run reads through closing tags and backtracks to
\* the last one it holds.
RawRunEnd(s, i) ==
  IF Unit(s, i, 62) = 0 THEN 0
  ELSE Lit(s,
           LastMatch(s, i + 6, Span(s, i + 1, RawRunSet) - Len(WtClose),
                     Literal(WtClose)),
           WtClose)

(***************************************************************************)
(* Regular expressions of the PDF scan, of cleanPdfText and of             *)
(* estimatePageBreaks                                                      *)
(***************************************************************************)
OpBT == <<66, 84>>
OpET == <<69, 84>>
OpTj == <<84, 106>>
OpTJ == <<84, 74>>
OpTf == <<84, 102>>
OpTd == <<84, 100>>
OpTD == <<84, 68>>
\* "/F"
FontPrefix == <<47, 70>>
PdfOperators == {OpBT, OpET, OpTj, OpTJ, OpTf, OpTd, OpTD}
\* "페이지"
PageWordKo == <<54168, 51060, 51648>>
\* "page": /Page\s*\d+/i is matched on the lower-cased text
PageWordEn == <<112, 97, 103, 101>>

\* /BT\s+.*?ET/s at i
TextBlockEnd(s, i) == Lazy(s, AtLeast(s, Lit(s, i, OpBT), WhiteSet, 1), OpET)

\* /open([^close]+)close\s*op/ at i, for the patterns (...)Tj and [...]TJ
ShowEnd(s, i, open, close, op) ==
  Lit(s,
      AtLeast(s, Unit(s, AtLeastNot(s, Unit(s, i, open), {close}, 1), close),
              WhiteSet, 0),
      op)

\* \s+([^(]+) at i.  White space is in [^(], so the two need two code units
\* of [^(], the first one white.
FontGroupEnd(s, i) ==
  IF AtLeast(s, i, WhiteSet, 1) # 0 THEN AtLeastNot(s, i, {40}, 2) ELSE 0

\* /\/F\d+\s+\d+\s+Tf\s+([^(]+)/ at i
FontTextEnd(s, i) ==
  FontGroupEnd(s,
    Lit(s,
        AtLeast(s,
          AtLeast(s,
            AtLeast(s, AtLeast(s, Lit(s, i, FontPrefix), DigitSet, 1),
                    WhiteSet, 1),
            DigitSet, 1),
          WhiteSet, 1),
        OpTf))

\* textPatterns[n - 1] at i
PdfPatternEnd(s, i, n) ==
  IF n = 1 THEN TextBlockEnd(s, i)
  ELSE IF n = 2 THEN ShowEnd(s, i, 40, 41, OpTj)
  ELSE IF n = 3 THEN ShowEnd(s, i, 91, 93, OpTJ)
  ELSE FontTextEnd(s, i)

\* /BT|ET|Tj|TJ|Tf|Td|TD/ at i
OperatorEnd(s, i) ==
  IF \E op \in PdfOperators : MatchAt(s, i, op) THEN i + 2 ELSE 0

\* (\.\d+)? at i
OptionalFraction(s, i) ==
  IF AtLeast(s, Unit(s, i, 46), DigitSet, 1) # 0
    THEN AtLeast(s, Unit(s, i, 46), DigitSet, 1)
    ELSE i

\* \s*$ under the m flag at i.  \s* is greedy: it reads to the end of the
\* text or gives back down to the last line terminator it read.
LineTail(s, i) ==
  IF i = 0 THEN 0
  ELSE IF Span(s, i, WhiteSet) > Len(s) THEN Span(s, i, WhiteSet)
  ELSE LastInside(s, i, Span(s, i, WhiteSet) - 1, LineEndSet)

\* /^\d+(\.\d+)?\s*$/m at i
NumberLineEnd(s, i) ==
  IF i <= Len(s) /\ (i = 1 \/ s[i - 1] \in LineEndSet)
    THEN LineTail(s, OptionalFraction(s, AtLeast(s, i, DigitSet, 1)))
    ELSE 0

\* /word\s*\d+/i at i
PageMarkEnd(s, i, word) ==
  AtLeast(s,
    AtLeast(s,
      IF i + Len(word) - 1 <= Len(s)
         /\ ToLowerCase(SubSeq(s, i, i + Len(word) - 1)) = word
        THEN i + Len(word) ELSE 0,
      WhiteSet, 0),
    DigitSet, 1)

\* /-\s*\d+\s*-/ at i
PageNumberEnd(s, i) ==
  Unit(s,
       AtLeast(s, AtLeast(s, AtLeast(s, Unit(s, i, 45), WhiteSet, 0), DigitSet, 1),
               WhiteSet, 0),
       45)

\* pageBreakPatterns[n - 1] at i: /\f/, /페이지\s*\d+/i, /Page\s*\d+/i,
\* /-\s*\d+\s*-/
PageBreakEnd(s, i, n) ==
  IF n = 1 THEN Unit(s, i, 12)
  ELSE IF n = 2 THEN PageMarkEnd(s, i, PageWordKo)
  ELSE IF n = 3 THEN PageMarkEnd(s, i, PageWordEn)
  ELSE PageNumberEnd(s, i)

\* [a-zA-Z가-힣0-9\s.,!?()/-]
PlainSet ==
  LowerSet \cup UpperSet \cup HangulSet \cup DigitSet \cup WhiteSet
    \cup {46, 44, 33, 63, 40, 41, 47, 45}

\* ^ under the m flag: index i is the start of s or follows a line terminator
LineStart(s, i) == i = 1 \/ (i > 1 /\ i <= Len(s) + 1 /\ s[i - 1] \in LineEndSet)

\* \s{min,}(.+) at i.  The white run is greedy and . matches no line
\* terminator; a white run that reaches the end of s gives back down to the
\* last unit of it that is no line terminator.
RestOfLine(s, i, min) ==
  IF i = 0 \/ Span(s, i, WhiteSet) - i < min THEN 0
  ELSE IF Span(s, i, WhiteSet) <= Len(s)
    THEN SpanNot(s, Span(s, i, WhiteSet), LineEndSet)
  ELSE IF LastOutside(s, i + min, Len(s), LineEndSet) = 0 THEN 0
  ELSE LastOutside(s, i + min, Len(s), LineEndSet) + 1

\* [:：] at i
ColonEnd(s, i) == IF Unit(s, i, 58) # 0 THEN Unit(s, i, 58) ELSE Unit(s, i, 65306)

\* [^\n]{10,50} at i, greedy
TitleRunEnd(s, i) ==
  IF AtLeastNot(s, i, {10}, 10) = 0 THEN 0
  ELSE IF AtLeastNot(s, i, {10}, 10) - i > 50 THEN i + 50
  ELSE AtLeastNot(s, i, {10}, 10)

\* sectionPatterns[n - 1] at i: /^\d+\.\s+(.+)/m, /^제\d+장\s+(.+)/m,
\* /^[가-힣]+\s*[:：]\s*(.+)/m, /^[A-Z][^\n]{10,50}/m
SectionPatternEnd(s, i, n) ==
  IF ~LineStart(s, i) THEN 0
  ELSE IF n = 1
    THEN RestOfLine(s, Unit(s, AtLeast(s, i, DigitSet, 1), 46), 1)
  ELSE IF n = 2
    THEN RestOfLine(s, Unit(s, AtLeast(s, Unit(s, i, 51228), DigitSet, 1), 51109), 1)
  ELSE IF n = 3
    THEN RestOfLine(s,
           ColonEnd(s, AtLeast(s, AtLeast(s, i, HangulSet, 1), WhiteSet, 0)), 0)
  ELSE IF i <= Len(s) /\ s[i] \in UpperSet THEN TitleRunEnd(s, i + 1)
  ELSE 0

MatchEnd(s, i, pat) ==
  CASE pat.kind = "literal" -> Lit(s, i, pat.lit)
    [] pat.kind = "element" -> ElementEnd(s, i, pat.open, pat.close, pat.min)
    [] pat.kind = "tag" -> TagEnd(s, i)
    [] pat.kind = "paragraph" -> ParagraphEnd(s, i)
    [] pat.kind = "pathElement" -> PathElementEnd(s, i)
    [] pat.kind = "rawRun" -> RawRunEnd(s, i)
    [] pat.kind = "pdf" -> PdfPatternEnd(s, i, pat.n)
    [] pat.kind = "operator" -> OperatorEnd(s, i)
    [] pat.kind = "numberLine" -> NumberLineEnd(s, i)
    [] pat.kind = "pageBreak" -> PageBreakEnd(s, i, pat.n)
    [] pat.kind = "section" -> SectionPatternEnd(s, i, pat.n)
    [] pat.kind = "plain" -> AtLeast(s, i, PlainSet, 1)

(***************************************************************************)
(* extractTextFromDocx, the ZIP/XML rung: the text of word/document.xml    *)
(***************************************************************************)
\* "&lt;", "&gt;", "&amp;"
EntLt == <<38, 108, 116, 59>>
EntGt == <<38, 103, 116, 59>>
EntAmp == <<38, 97, 109, 112, 59>>

\* the 50KB limit of the ZIP/XML rung
DocxTextLimit == 50000
\* the ZIP/XML rung is insufficient below this many characters
DocxMinLength == 10
\* the limit of the raw regex rung
DocxFallbackLimit == 20000
\* the raw regex rung is insufficient below this many trimmed characters
DocxFallbackMinLength == 20

\* s.replace(/<[^>]+>/g, '')
StripTags(s) == Replace(s, AnyTag, <<>>)

StripEach(parts) == [n \in 1..Len(parts) |-> StripTags(parts[n])]

\* the text runs: every <w:t> match, tags removed, trimmed, if not empty
DocxTextRuns(xml) ==
  TrimmedLongerThan(StripEach(MatchTexts(xml, Element(WtOpen, WtClose, 1))), 0)

\* textInParagraph: the <w:t> runs of one <w:p> match, which may be empty
ParagraphRuns(p) == MatchTexts(p, Element(WtOpen, WtClose, 0))

\* the text of one <w:p> match: its runs, tags removed, joined by ''
ParagraphText(p) == Trim(Join(StripEach(ParagraphRuns(p)), <<>>))

\* the paragraphs: the text of every <w:p> match that holds a run, if not
\* empty
DocxParagraphs(xml) ==
  LET TextOfEach(ps) == [n \in 1..Len(ps) |-> ParagraphText(ps[n])]
  IN  SelectSeq(TextOfEach(SelectSeq(MatchTexts(xml, Paragraph),
                                     LAMBDA p : Len(ParagraphRuns(p)) > 0)),
                LAMBDA t : Len(t) > 0)

DecodeEntities(s) ==
  Replace(Replace(Replace(s, Literal(EntLt), <<60>>), Literal(EntGt), <<62>>),
          Literal(EntAmp), <<38>>)

\* extractedTexts of the ZIP/XML rung
DocxExtractedTexts(xml) == DocxTextRuns(xml) \o DocxParagraphs(xml)

\* cleanText of the ZIP/XML rung
DocxCleanText(xml) ==
  Substring0(
    DecodeEntities(
      CollapseWhite(Join(TrimmedLongerThan(DocxExtractedTexts(xml), 1), <<32>>))),
    DocxTextLimit)

\* a ZIP/XML rung that judges every text insufficient
DocxAlwaysTooShort(cleanText) == TRUE

\* the ZIP/XML rung judges its text insufficient
DocxTooShort(cleanText) == Len(cleanText) < DocxMinLength

(***************************************************************************)
(* extractDocxFallback: the raw regex rung and the filename placeholder    *)
(***************************************************************************)
\* [...text.matchAll(pattern)].map(match => match[1] || ...) for the
\* patterns with a group, which is never empty
ElementGroups(text, open, close) ==
  LET GroupOfEach(ms) == [k \in 1..Len(ms) |-> ElementGroup(ms[k], open, close)]
  IN  GroupOfEach(MatchTexts(text, Element(open, close, 1)))

PathElementGroups(text) ==
  LET GroupOfEach(ms) == [k \in 1..Len(ms) |-> PathElementGroup(ms[k])]
  IN  GroupOfEach(MatchTexts(text, PathElement))

\* the fourth pattern has no group: match[0].replace(/<[^>]+>/g, '')
RawRunTexts(text) == StripEach(MatchTexts(text, RawRun))

\* extractedTexts of the raw regex rung, pattern by pattern
RawExtractedTexts(text) ==
  ElementGroups(text, WtOpen, WtClose)
    \o ElementGroups(text, TextOpen, TextClose)
    \o PathElementGroups(text)
    \o RawRunTexts(text)

\* cleanText of the raw regex rung
RawCleanText(b) ==
  Substring0(
    CollapseWhite(
      Join(TrimmedLongerThan(RawExtractedTexts(DecodeLossy(b)), 3), <<32>>)),
    DocxFallbackLimit)

\* a raw regex rung that accepts whatever it found: not the code's
RawNeverTooShort(cleanText) == FALSE

\* !cleanText || cleanText.trim().length < 20
RawTooShort(cleanText) ==
  Len(cleanText) = 0 \/ Len(Trim(cleanText)) < DocxFallbackMinLength

\* DOCX 문서 전문 분석 - 
DocxTplHead ==
  <<68, 79, 67, 88, 32, 47928, 49436, 32, 51204, 47928, 32, 48516, 49437,
    32, 45, 32>>

\*  /  / 📄 문서 정보: / - 파일명: 
DocxTplInfo ==
  <<10, 10, 55357, 56516, 32, 47928, 49436, 32, 51221, 48372, 58, 10, 45,
    32, 54028, 51068, 47749, 58, 32>>

\*  / - 형식: Microsoft Word 문서 (DOCX) / - 업로드일: 
DocxTplFormat ==
  <<10, 45, 32, 54805, 49885, 58, 32, 77, 105, 99, 114, 111, 115, 111, 102,
    116, 32, 87, 111, 114, 100, 32, 47928, 49436, 32, 40, 68, 79, 67, 88,
    41, 10, 45, 32, 50629, 47196, 46300, 51068, 58, 32>>

\*  / - 업로드 완료: ✅ / - 언어: 
DocxTplLang ==
  <<10, 45, 32, 50629, 47196, 46300, 32, 50756, 47308, 58, 32, 9989, 10,
    45, 32, 50616, 50612, 58, 32>>

\*  /  / 🔍 문서 내용 분석: / 
DocxTplAnalysis ==
  <<10, 10, 55357, 56589, 32, 47928, 49436, 32, 45236, 50857, 32, 48516,
    49437, 58, 10>>

\* 본 문서는 프로젝트 제안서로 분석됩니다. /  / 📋 주요 예상 구성 요소: / - 프로젝트 개요 및 목표 설정 / - 솔루션 개요 및 기술적 접근방법 / - 사업 계획 및 일정 관리 / - 예산 및 투자 계획 세부 사항 / - 기대효과 및 리스크 관리 방안
DocxTplProposal ==
  <<48376, 32, 47928, 49436, 45716, 32, 54532, 47196, 51229, 53944, 32,
    51228, 50504, 49436, 47196, 32, 48516, 49437, 46121, 45768, 45796, 46,
    10, 10, 55357, 56523, 32, 51452, 50836, 32, 50696, 49345, 32, 44396,
    49457, 32, 50836, 49548, 58, 10, 45, 32, 54532, 47196, 51229, 53944,
    32, 44060, 50836, 32, 48143, 32, 47785, 54364, 32, 49444, 51221, 10,
    45, 32, 49556, 47336, 49496, 32, 44060, 50836, 32, 48143, 32, 44592,
    49696, 51201, 32, 51217, 44540, 48169, 48277, 10, 45, 32, 49324, 50629,
    32, 44228, 54925, 32, 48143, 32, 51068, 51221, 32, 44288, 47532, 10,
    45, 32, 50696, 49328, 32, 48143, 32, 53804, 51088, 32, 44228, 54925,
    32, 49464, 48512, 32, 49324, 54637, 10, 45, 32, 44592, 45824, 54952,
    44284, 32, 48143, 32, 47532, 49828, 53356, 32, 44288, 47532, 32, 48169,
    50504>>

\* 본 문서는 RFP(제안요청서)로 분석됩니다. /  / 📋 주요 예상 구성 요소: / - 사업 개요 및 추진 배경 / - 기술 요구사항 및 성능 기준 / - 평가 기준 및 점수 체계 / - 제출 조건 및 일정 관리 / - 계약 조건 및 법적 사항
DocxTplRfp ==
  <<48376, 32, 47928, 49436, 45716, 32, 82, 70, 80, 40, 51228, 50504,
    50836, 52397, 49436, 41, 47196, 32, 48516, 49437, 46121, 45768, 45796,
    46, 10, 10, 55357, 56523, 32, 51452, 50836, 32, 50696, 49345, 32,
    44396, 49457, 32, 50836, 49548, 58, 10, 45, 32, 49324, 50629, 32,
    44060, 50836, 32, 48143, 32, 52628, 51652, 32, 48176, 44221, 10, 45,
    32, 44592, 49696, 32, 50836, 44396, 49324, 54637, 32, 48143, 32, 49457,
    45733, 32, 44592, 51456, 10, 45, 32, 54217, 44032, 32, 44592, 51456,
    32, 48143, 32, 51216, 49688, 32, 52404, 44228, 10, 45, 32, 51228,
    52636, 32, 51312, 44148, 32, 48143, 32, 51068, 51221, 32, 44288, 47532,
    10, 45, 32, 44228, 50557, 32, 51312, 44148, 32, 48143, 32, 48277,
    51201, 32, 49324, 54637>>

\* 본 문서는 프로젝트 보고서로 분석됩니다. /  / 📋 주요 예상 구성 요소: / - 프로젝트 현황 및 진행 상황 / - 성과 및 결과 분석 내용 / - 문제점 및 개선 사항 / - 향후 추진 계획 및 대안 / - 결론 및 제언 사항
DocxTplReport ==
  <<48376, 32, 47928, 49436, 45716, 32, 54532, 47196, 51229, 53944, 32,
    48372, 44256, 49436, 47196, 32, 48516, 49437, 46121, 45768, 45796, 46,
    10, 10, 55357, 56523, 32, 51452, 50836, 32, 50696, 49345, 32, 44396,
    49457, 32, 50836, 49548, 58, 10, 45, 32, 54532, 47196, 51229, 53944,
    32, 54788, 54889, 32, 48143, 32, 51652, 54665, 32, 49345, 54889, 10,
    45, 32, 49457, 44284, 32, 48143, 32, 44208, 44284, 32, 48516, 49437,
    32, 45236, 50857, 10, 45, 32, 47928, 51228, 51216, 32, 48143, 32,
    44060, 49440, 32, 49324, 54637, 10, 45, 32, 54693, 54980, 32, 52628,
    51652, 32, 44228, 54925, 32, 48143, 32, 45824, 50504, 10, 45, 32,
    44208, 47200, 32, 48143, 32, 51228, 50616, 32, 49324, 54637>>

\* 본 문서는 업무 관련 전문 문서로 분석됩니다. /  / 📋 주요 예상 구성 요소: / - 업무 목적 및 추진 배경 / - 기술적 내용 및 전문 지식 / - 실행 계획 및 운영 방안 / - 성과 측정 및 품질 관리 / - 개선 제안 및 발전 방향
DocxTplGeneric ==
  <<48376, 32, 47928, 49436, 45716, 32, 50629, 47924, 32, 44288, 47144, 32,
    51204, 47928, 32, 47928, 49436, 47196, 32, 48516, 49437, 46121, 45768,
    45796, 46, 10, 10, 55357, 56523, 32, 51452, 50836, 32, 50696, 49345,
    32, 44396, 49457, 32, 50836, 49548, 58, 10, 45, 32, 50629, 47924, 32,
    47785, 51201, 32, 48143, 32, 52628, 51652, 32, 48176, 44221, 10, 45,
    32, 44592, 49696, 51201, 32, 45236, 50857, 32, 48143, 32, 51204, 47928,
    32, 51648, 49885, 10, 45, 32, 49892, 54665, 32, 44228, 54925, 32,
    48143, 32, 50868, 50689, 32, 48169, 50504, 10, 45, 32, 49457, 44284,
    32, 52769, 51221, 32, 48143, 32, 54408, 51656, 32, 44288, 47532, 10,
    45, 32, 44060, 49440, 32, 51228, 50504, 32, 48143, 32, 48156, 51204,
    32, 48169, 54693>>

\* 🔍 파일명 기반 특화 분석: / - 원가관리/프로젝트 관련 전문 문서 / - 한수원(KHNP) 등 주요 기관 업무 / - 공식 제출용 문서 수준 /  / 
DocxTplKeywords ==
  <<55357, 56589, 32, 54028, 51068, 47749, 32, 44592, 48152, 32, 53945,
    54868, 32, 48516, 49437, 58, 10, 45, 32, 50896, 44032, 44288, 47532,
    47, 54532, 47196, 51229, 53944, 32, 44288, 47144, 32, 51204, 47928, 32,
    47928, 49436, 10, 45, 32, 54620, 49688, 50896, 40, 75, 72, 78, 80, 41,
    32, 46321, 32, 51452, 50836, 32, 44592, 44288, 32, 50629, 47924, 10,
    45, 32, 44277, 49885, 32, 51228, 52636, 50857, 32, 47928, 49436, 32,
    49688, 51456, 10, 10>>

\* 🤖 AI 평가 시스템: / 6대 지표(명확성, 전문성, 설득력, 논리성, 창의성, 신뢰성)로 / 정확하고 의미 있는 100점 만점 평가를 제공합니다.
DocxTplTail ==
  <<55358, 56598, 32, 65, 73, 32, 54217, 44032, 32, 49884, 49828, 53596,
    58, 10, 54, 45824, 32, 51648, 54364, 40, 47749, 54869, 49457, 44, 32,
    51204, 47928, 49457, 44, 32, 49444, 46301, 47141, 44, 32, 45436, 47532,
    49457, 44, 32, 52285, 51032, 49457, 44, 32, 49888, 47280, 49457, 41,
    47196, 10, 51221, 54869, 54616, 44256, 32, 51032, 48120, 32, 51080,
    45716, 32, 49, 48, 48, 51216, 32, 47564, 51216, 32, 54217, 44032,
    47484, 32, 51228, 44277, 54633, 45768, 45796, 46>>

\*  /  / 
DocxTplGap ==
  <<10, 10>>

\* 한국어 포함
LangKorean ==
  <<54620, 44397, 50612, 32, 54252, 54632>>

\* 영문
LangEnglish ==
  <<50689, 47928>>

\* 제안
KwProposalKo ==
  <<51228, 50504>>

\* proposal
KwProposalEn ==
  <<112, 114, 111, 112, 111, 115, 97, 108>>

\* RFP
KwRfpUpper ==
  <<82, 70, 80>>

\* rfp
KwRfpLower ==
  <<114, 102, 112>>

\* 보고서
KwReportKo ==
  <<48372, 44256, 49436>>

\* report
KwReportEn ==
  <<114, 101, 112, 111, 114, 116>>

\* DOCX 파싱 실패 - 파일: 
DocxErrorHead ==
  <<68, 79, 67, 88, 32, 54028, 49905, 32, 49892, 54056, 32, 45, 32, 54028,
    51068, 58, 32>>

\* /프로젝트|project|원가관리|cost|management|제출|submit|한수원|KHNP/i, each
\* alternative lower-cased
ProjectKeywords ==
  { <<54532, 47196, 51229, 53944>>,
    <<112, 114, 111, 106, 101, 99, 116>>,
    <<50896, 44032, 44288, 47532>>,
    <<99, 111, 115, 116>>,
    <<109, 97, 110, 97, 103, 101, 109, 101, 110, 116>>,
    <<51228, 52636>>,
    <<115, 117, 98, 109, 105, 116>>,
    <<54620, 49688, 50896>>,
    <<107, 104, 110, 112>> }

hasKoreanChars(name) == \E i \in 1..Len(name) : name[i] \in HangulSet

hasProjectKeywords(name) ==
  \E k \in ProjectKeywords : Includes(ToLowerCase(name), k)

\* the section list the placeholder picks from the file name
DocxTplBranch(name) ==
  IF Includes(name, KwProposalKo) \/ Includes(name, KwProposalEn)
    THEN DocxTplProposal
  ELSE IF Includes(name, KwRfpUpper) \/ Includes(name, KwRfpLower)
    THEN DocxTplRfp
  ELSE IF Includes(name, KwReportKo) \/ Includes(name, KwReportEn)
    THEN DocxTplReport
  ELSE DocxTplGeneric

\* a placeholder that leaves the file name out: not the code's
DocxPlaceholderUnnamed(name, date) ==
  DocxTplHead \o DocxTplInfo \o DocxTplFormat \o date \o DocxTplLang
    \o (IF hasKoreanChars(name) THEN LangKorean ELSE LangEnglish)
    \o DocxTplAnalysis \o DocxTplBranch(name) \o DocxTplGap
    \o (IF hasProjectKeywords(name) THEN DocxTplKeywords ELSE <<>>)
    \o DocxTplTail

\* fallbackContent: the filename placeholder; date is
\* new Date().toLocaleDateString('ko-KR')
DocxPlaceholder(name, date) ==
  DocxTplHead \o name \o DocxTplInfo \o name \o DocxTplFormat \o date
    \o DocxTplLang \o (IF hasKoreanChars(name) THEN LangKorean ELSE LangEnglish)
    \o DocxTplAnalysis \o DocxTplBranch(name) \o DocxTplGap
    \o (IF hasProjectKeywords(name) THEN DocxTplKeywords ELSE <<>>)
    \o DocxTplTail

\* what extractDocxFallback resolves with; threw: its try block threw
extractDocxFallback(b, name, date, threw) ==
  LET Resolve(cleanText) ==
        IF threw
          THEN [kind |-> "docx", text |-> DocxErrorHead \o name,
                extraction_method |-> "docx_error"]
        ELSE IF RawTooShort(cleanText)
          THEN [kind |-> "docx", text |-> DocxPlaceholder(name, date),
                extraction_method |-> "docx_filename_fallback"]
        ELSE [kind |-> "docx", text |-> cleanText,
              extraction_method |-> "docx_fallback"]
  IN  Resolve(RawCleanText(b))

(***************************************************************************)
(* cleanPdfText, estimatePageBreaks and the scan of                        *)
(* extractWithFallbackMethod                                               *)
(***************************************************************************)
\* [\w\s가-힣.,!?()-]: what cleanPdfText keeps
PdfKeepSet ==
  WordSet \cup WhiteSet \cup HangulSet \cup {33, 40, 41, 44, 45, 46, 63}

cleanPdfText(rawText) ==
  Trim(
    KeepUnits(
      CollapseWhite(
        Replace(
          RemoveUnits(RemoveUnits(Replace(rawText, PdfOperator, <<>>), {40, 41}),
                      {91, 93}),
          NumberLine, <<>>)),
      PdfKeepSet))

\* a segment counts as a page above this many trimmed characters
PageMinLength == 50
\* cleaned texts of this length or shorter are dropped
PdfMinTextLength == 5

\* newPages for pageBreakPatterns[n - 1]: of every page the pieces of
\* page.split(pattern) with split.trim().length > 50
NewPages(pages, n) ==
  SelectSeq(Join([k \in 1..Len(pages) |-> Split(pages[k], PageBreak(n))], <<>>),
            LAMBDA p : Len(Trim(p)) > PageMinLength)

\* the loop without its break, every pattern splitting the pages the one
\* before left: not the code's
RECURSIVE PageBreaksKeepGoing(_, _)
PageBreaksKeepGoing(pages, n) ==
  LET Keep(newPages) ==
        IF Len(newPages) > Len(pages) THEN PageBreaksKeepGoing(newPages, n + 1)
        ELSE PageBreaksKeepGoing(pages, n + 1)
  IN  IF n > 4 THEN pages ELSE Keep(NewPages(pages, n))

\* the loop over pageBreakPatterns from pattern n on: the first split that
\* yields more pages is kept
RECURSIVE PageBreaksFrom(_, _)
PageBreaksFrom(pages, n) ==
  LET Keep(newPages) ==
        IF Len(newPages) > Len(pages) THEN newPages
        ELSE PageBreaksFrom(pages, n + 1)
  IN  IF n > 4 THEN pages ELSE Keep(NewPages(pages, n))

estimatePageBreaks(text) == PageBreaksFrom(<<text>>, 1)

\* extractedTexts of extractWithFallbackMethod
ScanExtractedTexts(pdfString) ==
  MatchTexts(pdfString, PdfPattern(1)) \o MatchTexts(pdfString, PdfPattern(2))
    \o MatchTexts(pdfString, PdfPattern(3)) \o MatchTexts(pdfString, PdfPattern(4))

\* combinedText: the matches cleaned, kept above five characters, joined
ScanCombinedText(b) ==
  LET CleanEach(texts) == [k \in 1..Len(texts) |-> cleanPdfText(texts[k])]
  IN  Join(SelectSeq(CleanEach(ScanExtractedTexts(DecodeLossy(b))),
                     LAMBDA t : Len(t) > PdfMinTextLength),
           <<10>>)

\* pages of the scan when its try block runs to the end
ScanPages(b) ==
  LET Pages(combinedText, estimatedPages) ==
        IF Len(estimatedPages) > 0 THEN estimatedPages ELSE <<combinedText>>
      Estimate(combinedText) ==
        Pages(combinedText, estimatePageBreaks(combinedText))
  IN  Estimate(ScanCombinedText(b))

(***************************************************************************)
(* extractTextFromPdf and extractWithPdfLib: what they build from what the *)
(* libraries hand them.  An optional value is a sequence of at most one    *)
(* value; a string is a sequence of UTF-16 code units.                     *)
(***************************************************************************)
Undefined == <<>>

Some(v) == <<v>>

\* an optional string passed on as it is: not the code's
AsGiven(v) == v

\* v || undefined for an optional string: the empty string is falsy
OrUndefined(v) == IF v = Some(<<>>) THEN Undefined ELSE v

Min(a, b) == IF a <= b THEN a ELSE b

Max(a, b) == IF a >= b THEN a ELSE b

\* Math.floor(a / b) for b > 0: not the code's
FloorDiv(a, b) == a \div b

\* Math.ceil(a / b) for b > 0
CeilDiv(a, b) == (a + b - 1) \div b

\* s.substring(from, to): both clamped to the length of s, and swapped if
\* from > to
Substring(s, from, to) ==
  LET f == Min(Max(from, 0), Len(s))
      t == Min(Max(to, 0), Len(s))
  IN  SubSeq(s, Min(f, t) + 1, Max(f, t))

\* pageContent of page i (from 0) of the primary rung
PageContent(text, numpages, i) ==
  LET textPerPage == CeilDiv(Len(text), numpages)
  IN  Trim(Substring(text, i * textPerPage,
                     Min((i + 1) * textPerPage, Len(text))))

\* pages of the primary rung: the loop runs numpages times and keeps the
\* pages that are not empty
PrimaryPages(text, numpages) ==
  LET kept == SelectSeq([i \in 1..numpages |-> i],
                        LAMBDA i : Len(PageContent(text, numpages, i - 1)) > 0)
  IN  [k \in 1..Len(kept) |->
         [page_number |-> kept[k],
          content |-> PageContent(text, numpages, kept[k] - 1),
          word_count |-> WordCount(PageContent(text, numpages, kept[k] - 1))]]

\* metadata of the primary rung; pdfData.info?.X reads undefined from a
\* missing info as from a missing X
PrimaryMetadata(pdfData, b) ==
  [title |-> OrUndefined(pdfData.info.Title),
   author |-> OrUndefined(pdfData.info.Author),
   subject |-> OrUndefined(pdfData.info.Subject),
   creator |-> OrUndefined(pdfData.info.Creator),
   creation_date |-> OrUndefined(pdfData.info.CreationDate),
   modification_date |-> OrUndefined(pdfData.info.ModDate),
   page_count |-> pdfData.numpages,
   file_size |-> Len(b)]

\* what the primary rung returns for pdfData
PrimaryResult(pdfData, b) ==
  [kind |-> "pdf",
   text |-> pdfData.text,
   pages |-> PrimaryPages(pdfData.text, pdfData.numpages),
   metadata |-> PrimaryMetadata(pdfData, b),
   extraction_method |-> "pdf-parse"]

\* metadata of extractWithPdfLib for the loaded pdfDoc; creationDate and
\* modificationDate are getCreationDate()?.toISOString() and
\* getModificationDate()?.toISOString()
PdfLibMetadata(pdfDoc, b) ==
  [title |-> OrUndefined(pdfDoc.title),
   author |-> OrUndefined(pdfDoc.author),
   subject |-> OrUndefined(pdfDoc.subject),
   creator |-> OrUndefined(pdfDoc.creator),
   creation_date |-> OrUndefined(pdfDoc.creationDate),
   modification_date |-> OrUndefined(pdfDoc.modificationDate),
   page_count |-> pdfDoc.pageCount,
   file_size |-> Len(b)]

\* a scan that tags its pages as the primary rung's: not the code's
extractWithPrimaryTag(b) == [pages |-> ScanPages(b), method |-> "pdf-parse"]

\* what the try block of extractWithFallbackMethod returns
extractWithFallbackMethod(b) == [pages |-> ScanPages(b), method |-> "fallback"]

\* what extractWithPdfLib returns once the scan has returned
PdfLibResult(meta, extractionResult) ==
  LET pages == [k \in 1..Len(extractionResult.pages) |->
                  [page_number |-> k,
                   content |-> extractionResult.pages[k],
                   word_count |-> WordCount(extractionResult.pages[k])]]
  IN  [kind |-> "pdf",
       text |-> Join([k \in 1..Len(pages) |-> pages[k].content], <<10, 10>>),
       pages |-> pages,
       metadata |-> meta,
       extraction_method |-> extractionResult.method]

\* "PDF 파싱 완전 실패: "
PdfTotalFailure ==
  <<80, 68, 70, 32, 54028, 49905, 32, 50756, 51204, 32, 49892, 54056, 58, 32>>

\* "fileName is not defined": the catch block of extractWithFallbackMethod
\* reads fileName, which is neither a parameter nor a variable in its scope
FileNameNotDefined ==
  <<102, 105, 108, 101, 78, 97, 109, 101, 32, 105, 115, 32, 110, 111, 116,
    32, 100, 101, 102, 105, 110, 101, 100>>

\* the rejection of extractWithPdfLib for the error its try block caught
PdfLibError(message) == [kind |-> "error", message |-> PdfTotalFailure \o message]

(***************************************************************************)
(* analyzeDocumentStructure: identifyDocumentSections,                     *)
(* determineSectionType, estimateDocumentType and extractKeyTopics         *)
(***************************************************************************)
\* '문서 시작'
TitleDocumentStart == <<47928, 49436, 32, 49884, 51089>>
\* '전체 문서'
TitleWholeDocument == <<51204, 52404, 32, 47928, 49436>>

\* String.prototype.includes on the lower-cased title, for each keyword list
\* of determineSectionType
IncludesAny(s, keywords) == \E k \in keywords : Includes(ToLowerCase(s), k)

\* '목차', '차례', '개요'
HeaderWords == {<<47785, 52264>>, <<52264, 47168>>, <<44060, 50836>>}
\* '표', 'table', '비교'
TableWords == {<<54364>>, <<116, 97, 98, 108, 101>>, <<48708, 44368>>}
\* '목록', 'list', '항목'
ListWords == {<<47785, 47197>>, <<108, 105, 115, 116>>, <<54637, 47785>>}
\* '결론', '마무리', '요약', 'conclusion', 'summary'
ConclusionWords ==
  {<<44208, 47200>>, <<47560, 47924, 47532>>, <<50836, 50557>>,
   <<99, 111, 110, 99, 108, 117, 115, 105, 111, 110>>,
   <<115, 117, 109, 109, 97, 114, 121>>}

determineSectionType(title) ==
  IF IncludesAny(title, HeaderWords) THEN "header"
  ELSE IF IncludesAny(title, TableWords) THEN "table"
  ELSE IF IncludesAny(title, ListWords) THEN "list"
  ELSE IF IncludesAny(title, ConclusionWords) THEN "conclusion"
  ELSE "body"

\* the first of sectionPatterns (from 1) that trimmedLine.match finds, 0 if
\* none does
RECURSIVE HeadingPatternFrom(_, _)
HeadingPatternFrom(trimmedLine, n) ==
  IF n > 4 THEN 0
  ELSE IF FirstMatch(trimmedLine, 1, Len(trimmedLine), SectionPattern(n)) # 0
    THEN n
  ELSE HeadingPatternFrom(trimmedLine, n + 1)

\* match[1] || trimmedLine.  The patterns carry the g flag, so match holds
\* the matches, not the groups: match[1] is the second match in the line,
\* which a line has only past a line terminator other than \n.
SectionTitle(match, trimmedLine) ==
  IF Len(match) >= 2 THEN match[2] ELSE trimmedLine

\* currentSection before the first line
StartSection ==
  [title |-> TitleDocumentStart, content |-> <<>>, section_type |-> "body",
   word_count |-> 0]

\* currentSection after a heading line
NewSection(trimmedLine, n) ==
  [title |-> SectionTitle(MatchTexts(trimmedLine, SectionPattern(n)), trimmedLine),
   content |-> <<>>,
   section_type |-> determineSectionType(trimmedLine),
   word_count |-> 0]

\* the push without the test of currentSection.content.trim()
PushSectionAlways(sections, currentSection) ==
  Append(sections,
         [currentSection EXCEPT !.word_count = WordCount(currentSection.content)])

\* if (currentSection.content.trim()) { set word_count; sections.push(...) }
PushSection(sections, currentSection) ==
  IF Len(Trim(currentSection.content)) > 0
    THEN Append(sections,
                [currentSection EXCEPT !.word_count = WordCount(currentSection.content)])
    ELSE sections

\* one turn of the loop over lines
SectionStep(st, line, n) ==
  IF Len(Trim(line)) = 0 THEN st
  ELSE IF n # 0
    THEN [sections |-> PushSection(st.sections, st.current),
          current |-> NewSection(Trim(line), n)]
  ELSE [st EXCEPT !.current.content = @ \o line \o <<10>>]

\* sections and currentSection after the first n lines
RECURSIVE SectionsAfter(_, _)
SectionsAfter(lines, n) ==
  IF n = 0 THEN [sections |-> <<>>, current |-> StartSection]
  ELSE SectionStep(SectionsAfter(lines, n - 1), lines[n],
                   HeadingPatternFrom(Trim(lines[n]), 1))

\* what the function returns for the sections the loop left
SectionsOrWhole(sections, text) ==
  IF Len(sections) > 0 THEN sections
  ELSE <<[title |-> TitleWholeDocument, content |-> text,
          section_type |-> "body", word_count |-> WordCount(text)]>>

\* the loop and the push of the last section
SectionsOfLines(lines) ==
  PushSection(SectionsAfter(lines, Len(lines)).sections,
              SectionsAfter(lines, Len(lines)).current)

identifyDocumentSections(text) ==
  SectionsOrWhole(SectionsOfLines(Split(text, Literal(<<10>>))), text)

\* rfpKeywords: 'request for proposal', 'rfp', '제안요청서', '입찰공고',
\* '사업계획', '요구사항', '평가기준'
RfpKeywords ==
  {
   <<114, 101, 113, 117, 101, 115, 116, 32, 102, 111, 114, 32, 112, 114, 111, 112, 111, 115, 97, 108>>,
   <<114, 102, 112>>, <<51228, 50504, 50836, 52397, 49436>>,
   <<51077, 52272, 44277, 44256>>, <<49324, 50629, 44228, 54925>>,
   <<50836, 44396, 49324, 54637>>, <<54217, 44032, 44592, 51456>>}
\* proposalKeywords: '제안서', 'proposal', '사업제안', '기술제안', '솔루션',
\* '방안', '추진계획'
ProposalKeywords ==
  {<<51228, 50504, 49436>>, <<112, 114, 111, 112, 111, 115, 97, 108>>,
   <<49324, 50629, 51228, 50504>>, <<44592, 49696, 51228, 50504>>,
   <<49556, 47336, 49496>>, <<48169, 50504>>,
   <<52628, 51652, 44228, 54925>>}
\* reportKeywords: '보고서', 'report', '분석', '결과', '현황', '실적'
ReportKeywords ==
  {<<48372, 44256, 49436>>, <<114, 101, 112, 111, 114, 116>>,
   <<48516, 49437>>, <<44208, 44284>>, <<54788, 54889>>, <<49892, 51201>>}
\* presentationKeywords: '발표', 'presentation', 'ppt', '설명자료', '브리핑'
PresentationKeywords ==
  {<<48156, 54364>>,
   <<112, 114, 101, 115, 101, 110, 116, 97, 116, 105, 111, 110>>,
   <<112, 112, 116>>, <<49444, 47749, 51088, 47308>>,
   <<48652, 47532, 54609>>}

\* keywords.some(keyword => textLower.includes(keyword)
\*                          || fileNameLower.includes(keyword))
SomeKeyword(text, name, keywords) ==
  IncludesAny(text, keywords) \/ IncludesAny(name, keywords)

\* estimateDocumentType with the proposal and report lists tried first: not
\* the code's
estimateProposalFirst(text, name) ==
  IF SomeKeyword(text, name, ProposalKeywords) THEN "proposal"
  ELSE IF SomeKeyword(text, name, ReportKeywords) THEN "report"
  ELSE IF SomeKeyword(text, name, RfpKeywords) THEN "rfp"
  ELSE IF SomeKeyword(text, name, PresentationKeywords) THEN "presentation"
  ELSE "other"

estimateDocumentType(text, name) ==
  IF SomeKeyword(text, name, RfpKeywords) THEN "rfp"
  ELSE IF SomeKeyword(text, name, ProposalKeywords) THEN "proposal"
  ELSE IF SomeKeyword(text, name, ReportKeywords) THEN "report"
  ELSE IF SomeKeyword(text, name, PresentationKeywords) THEN "presentation"
  ELSE "other"

\* stopWords of extractKeyTopics
StopWords ==
  {<<44536, 47532, 44256>>, <<54616, 51648, 47564>>,
   <<44536, 47084, 45208>>, <<46608, 54620>>, <<46384, 46972, 49436>>,
   <<51060, 44163>>, <<44536, 44163>>, <<51060, 50640>>, <<45824, 54620>>,
   <<50948, 54620>>, <<53685, 54644>>, <<45824, 54644>>, <<51080, 45716>>,
   <<50630, 45716>>, <<46104, 45716>>, <<54616, 45716>>, <<44057, 51008>>,
   <<45796, 47480>>, <<49352, 47196, 50868>>, <<44592, 48376>>,
   <<51452, 50836>>, <<51204, 52404>>, <<51068, 48152>>, <<53945, 48324>>}

\* text.toLowerCase().replace(/[^\w가-힣\s]/g, ' ')
TopicText(text) ==
  [i \in 1..Len(text) |->
     IF ToLowerCase(text)[i] \in WordSet \cup HangulSet \cup WhiteSet
       THEN ToLowerCase(text)[i] ELSE 32]

\* .split(/\s+/).filter(word => word.length > 2 && !stopWords.has(word)):
\* the runs between white space, which the filter clears of the empty ones
TopicWordsOf(s, starts) ==
  SelectSeq([k \in 1..Len(starts) |->
               SubSeq(s, starts[k], SpanNot(s, starts[k], WhiteSet) - 1)],
            LAMBDA word : Len(word) > 2 /\ word \notin StopWords)

TopicWords(s) ==
  TopicWordsOf(s, SelectSeq(Indices(s),
                   LAMBDA i : s[i] \notin WhiteSet
                              /\ (i = 1 \/ s[i - 1] \in WhiteSet)))

\* wordCount.get(word) once the loop has run
TopicCount(words, word) == Cardinality({k \in 1..Len(words) : words[k] = word})

\* the place of the entry of words[first[j]] without the sort: not the code's
TopicRankUnsorted(words, first, j) == j

\* the place of the entry of words[first[j]] after the sort by count, which
\* is stable: entries of equal count stay in the order the Map holds them,
\* the order of their first occurrence
TopicRank(words, first, j) ==
  1 + Cardinality({i \in 1..Len(first) :
        \/ TopicCount(words, words[first[i]]) > TopicCount(words, words[first[j]])
        \/ /\ TopicCount(words, words[first[i]]) = TopicCount(words, words[first[j]])
           /\ i < j})

\* Array.from(wordCount.entries()).sort(...).slice(0, 10).map(([word]) => word)
\* for the indices first of the first occurrence of every word
TopTopics(words, first) ==
  [r \in 1..Min(10, Len(first)) |->
     words[first[CHOOSE j \in 1..Len(first) : TopicRank(words, first, j) = r]]]

TopicsOfWords(words) ==
  TopTopics(words, SelectSeq(Indices(words),
                     LAMBDA k : \A j \in 1..(k - 1) : words[j] # words[k]))

extractKeyTopics(text) == TopicsOfWords(TopicWords(TopicText(text)))

(***************************************************************************)
(* extractPlainTextFromBinary and the catch block of                       *)
(* extractWithFallbackMethod that calls it                                 *)
(***************************************************************************)

\* '파일 분석 결과 - '
PdfTplHead ==
  <<54028, 51068, 32, 48516, 49437, 32, 44208, 44284, 32, 45, 32>>

\* from the end of the first line to '- 파일명: '
PdfTplInfo ==
  <<10, 32, 32, 32, 32, 32, 32, 10, 48376, 32, 47928, 49436, 45716, 32,
    50629, 47196, 46300, 46108, 32, 80, 68, 70, 32, 54028, 51068, 51077,
    45768, 45796, 46, 10, 80, 68, 70, 32, 45236, 50857, 32, 52628, 52636,
    51060, 32, 44592, 49696, 51201, 32, 51228, 54620, 51004, 47196, 32,
    51064, 54644, 32, 50756, 51204, 55176, 32, 49457, 44277, 54616, 51648,
    32, 47803, 54664, 51648, 47564, 44, 10, 54028, 51068, 47749, 44284, 32,
    47700, 53440, 45936, 51060, 53552, 47484, 32, 44592, 48152, 51004,
    47196, 32, 48516, 49437, 51012, 32, 51652, 54665, 54633, 45768, 45796,
    46, 10, 10, 54028, 51068, 32, 51221, 48372, 58, 10, 45, 32, 54028,
    51068, 47749, 58, 32>>

\* from '- 형식: PDF 문서' to '추정 내용 (파일명 기반):'
PdfTplGuess ==
  <<10, 45, 32, 54805, 49885, 58, 32, 80, 68, 70, 32, 47928, 49436, 10, 45,
    32, 49345, 53468, 58, 32, 50629, 47196, 46300, 32, 50756, 47308, 10,
    10, 52628, 51221, 32, 45236, 50857, 32, 40, 54028, 51068, 47749, 32,
    44592, 48152, 41, 58, 10>>

\* the lines for a proposal
PdfTplProposal ==
  <<45, 32, 54532, 47196, 51229, 53944, 32, 51228, 50504, 49436, 32, 46608,
    45716, 32, 49324, 50629, 44228, 54925, 49436, 10, 45, 32, 44592, 49696,
    51201, 32, 49556, 47336, 49496, 32, 48143, 32, 51217, 44540, 48169,
    48277, 10, 45, 32, 54532, 47196, 51229, 53944, 32, 51068, 51221, 32,
    48143, 32, 50696, 49328, 10, 45, 32, 44592, 45824, 54952, 44284, 32,
    48143, 32, 49457, 44284, 51648, 54364>>

\* the lines for an RFP
PdfTplRfp ==
  <<45, 32, 82, 70, 80, 32, 40, 51228, 50504, 50836, 52397, 49436, 41, 32,
    47928, 49436, 10, 45, 32, 49324, 50629, 32, 44060, 50836, 32, 48143,
    32, 47785, 54364, 10, 45, 32, 44592, 49696, 32, 50836, 44396, 49324,
    54637, 10, 45, 32, 54217, 44032, 32, 44592, 51456, 32, 48143, 32,
    51068, 51221>>

\* the lines for a contract
PdfTplContract ==
  <<45, 32, 44228, 50557, 49436, 32, 46608, 45716, 32, 54801, 50557, 49436,
    10, 45, 32, 49324, 50629, 32, 48276, 50948, 32, 48143, 32, 51312,
    44148, 10, 45, 32, 45225, 54408, 32, 51312, 44148, 32, 48143, 32,
    51068, 51221, 10, 45, 32, 48277, 51201, 32, 51312, 44148, 32, 48143,
    32, 52293, 51076>>

\* the lines for any other file
PdfTplGeneric ==
  <<45, 32, 50629, 47924, 32, 44288, 47144, 32, 47928, 49436, 10, 45, 32,
    54532, 47196, 51229, 53944, 32, 44288, 47144, 32, 51221, 48372, 10, 45,
    32, 44592, 49696, 51201, 32, 45236, 50857, 32, 54252, 54632, 10, 45,
    32, 49324, 50629, 51201, 32, 44032, 52824, 32, 51228, 49884>>

\* the closing paragraph
PdfTplTail ==
  <<10, 10, 51060, 32, 48516, 49437, 51012, 32, 48148, 53461, 51004, 47196,
    32, 65, 73, 32, 54217, 44032, 47484, 32, 51652, 54665, 54616, 50668,
    32, 51032, 48120, 32, 51080, 45716, 32, 54588, 46300, 48177, 51012, 32,
    51228, 44277, 54644, 46300, 47549, 45768, 45796, 46>>

\* 'uploaded_document'
UploadedDocument ==
  <<117, 112, 108, 111, 97, 100, 101, 100, 95, 100, 111, 99, 117, 109, 101,
    110, 116>>

\* '계약'
KwContractKo ==
  <<44228, 50557>>

\* 'contract'
KwContractEn ==
  <<99, 111, 110, 116, 114, 97, 99, 116>>

PlainTextLimit == 10000

PlainMinRun == 3

PlainMinLength == 10

\* textMatches.filter(match => match.trim().length > 3).join('\n')
\*            .substring(0, 10000), '' if nothing matches
PlainText(decoded) ==
  Substring0(Join(SelectSeq(MatchTexts(decoded, PlainRun),
                            LAMBDA match : Len(Trim(match)) > PlainMinRun),
                  <<10>>),
             PlainTextLimit)

\* fileName || 'uploaded_document' for the optional parameter fileName
SafeFileName(fileName) ==
  IF fileName = Undefined \/ fileName = Some(<<>>) THEN UploadedDocument
  ELSE fileName[1]

\* the lines the template chooses by the file name
PdfTplBranch(safeFileName) ==
  IF Includes(safeFileName, KwProposalKo) \/ Includes(safeFileName, KwProposalEn)
    THEN PdfTplProposal
  ELSE IF Includes(safeFileName, KwRfpUpper) \/ Includes(safeFileName, KwRfpLower)
    THEN PdfTplRfp
  ELSE IF Includes(safeFileName, KwContractKo) \/ Includes(safeFileName, KwContractEn)
    THEN PdfTplContract
  ELSE PdfTplGeneric

\* the text returned in place of a short one
PdfPlaceholder(safeFileName) ==
  PdfTplHead \o safeFileName \o PdfTplInfo \o safeFileName \o PdfTplGuess
    \o PdfTplBranch(safeFileName) \o PdfTplTail

\* if (!text || text.trim().length < 10)
PlainTooShort(text) == Len(Trim(text)) < PlainMinLength

extractPlainTextFromBinary(uint8Array, fileName) ==
  LET Resolve(text) ==
        IF PlainTooShort(text) THEN PdfPlaceholder(SafeFileName(fileName))
        ELSE text
  IN  Resolve(PlainText(DecodeLossy(uint8Array)))

\* what the catch block of extractWithFallbackMethod returns for the text of
\* extractPlainTextFromBinary
ScanCatchReturn(fallbackText) ==
  [pages |-> <<fallbackText>>, method |-> "fallback"]

\* <w:t>Hello world text</w:t>
FragDocxRun ==
  <<60, 119, 58, 116, 62, 72, 101, 108, 108, 111, 32, 119, 111, 114, 108,
    100, 32, 116, 101, 120, 116, 60, 47, 119, 58, 116, 62>>

\* %PDF BT (Hello World) Tj ET: a header and an uncompressed text block
FragPdfBlock ==
  <<37, 80, 68, 70, 32, 66, 84, 32, 40, 72, 101, 108, 108, 111, 32, 87,
    111, 114, 108, 100, 41, 32, 84, 106, 32, 69, 84>>

\* rfp.pdf
NameRfpPdf ==
  <<114, 102, 112, 46, 112, 100, 102>>

\* notes.docx
NameNotesDocx ==
  <<110, 111, 116, 101, 115, 46, 100, 111, 99, 120>>

\* a.txt
NameLowerTxt ==
  <<97, 46, 116, 120, 116>>

\* A.TXT
NameUpperTxt ==
  <<65, 46, 84, 88, 84>>

\* x.DOCX
NameUpperDocx ==
  <<120, 46, 68, 79, 67, 88>>

\* 제안서.docx
NameProposalDocx ==
  <<51228, 50504, 49436, 46, 100, 111, 99, 120>>

\* <w:p><w:t>Hi</w:t></w:p>
XmlShort ==
  <<60, 119, 58, 112, 62, 60, 119, 58, 116, 62, 72, 105, 60, 47, 119, 58,
    116, 62, 60, 47, 119, 58, 112, 62>>

\* <w:p><w:t> </w:t></w:p>
XmlBlank ==
  <<60, 119, 58, 112, 62, 60, 119, 58, 116, 62, 32, 60, 47, 119, 58, 116,
    62, 60, 47, 119, 58, 112, 62>>

\* <w:p><w:t>Hello </w:t><w:t>world &amp; co</w:t></w:p>
XmlParagraph ==
  <<60, 119, 58, 112, 62, 60, 119, 58, 116, 62, 72, 101, 108, 108, 111, 32,
    60, 47, 119, 58, 116, 62, 60, 119, 58, 116, 62, 119, 111, 114, 108,
    100, 32, 38, 97, 109, 112, 59, 32, 99, 111, 60, 47, 119, 58, 116, 62,
    60, 47, 119, 58, 112, 62>>

\* <w:t xml:space="preserve">a &lt;b&gt; text run</w:t>
XmlRunOnly ==
  <<60, 119, 58, 116, 32, 120, 109, 108, 58, 115, 112, 97, 99, 101, 61, 34,
    112, 114, 101, 115, 101, 114, 118, 101, 34, 62, 97, 32, 38, 108, 116,
    59, 98, 38, 103, 116, 59, 32, 116, 101, 120, 116, 32, 114, 117, 110,
    60, 47, 119, 58, 116, 62>>

\* 2025. 9. 14.
SampleDate ==
  <<50, 48, 50, 53, 46, 32, 57, 46, 32, 49, 52, 46>>

\*  \n 
PdfTextBlank ==
  <<32, 10, 32>>

\* abc  de
PdfTextUneven ==
  <<97, 98, 99, 32, 32, 100, 101>>

\* Page one text.\nPage two.
PdfTextTwoPages ==
  <<80, 97, 103, 101, 32, 111, 110, 101, 32, 116, 101, 120, 116, 46, 10,
    80, 97, 103, 101, 32, 116, 119, 111, 46>>

\* RFP
TitleSample ==
  <<82, 70, 80>>

\* Kim
AuthorSample ==
  <<75, 105, 109>>

\* Failed to parse PDF document
LoadFailureMessage ==
  <<70, 97, 105, 108, 101, 100, 32, 116, 111, 32, 112, 97, 114, 115, 101,
    32, 80, 68, 70, 32, 100, 111, 99, 117, 109, 101, 110, 116>>

\* Proposal
SubjectSample ==
  <<80, 114, 111, 112, 111, 115, 97, 108>>

\* Word
CreatorSample ==
  <<87, 111, 114, 100>>

\* D:20250914000000Z
PdfDateSample ==
  <<68, 58, 50, 48, 50, 53, 48, 57, 49, 52, 48, 48, 48, 48, 48, 48, 90>>

\* 2025-09-14T00:00:00.000Z
IsoDateSample ==
  <<50, 48, 50, 53, 45, 48, 57, 45, 49, 52, 84, 48, 48, 58, 48, 48, 58, 48,
    48, 46, 48, 48, 48, 90>>

(***************************************************************************)
(* Inputs.  A buffer is a concatenation of fragments that carry the cases  *)
(* the service distinguishes: the signatures (whole and cut short), an     *)
(* invalid and a multi-byte UTF-8 sequence, a Word text run, a PDF text    *)
(* block, a line break and a ZIP end-of-central-directory record.          *)
(***************************************************************************)
\* "%PDF"
FragPdfMagic == <<37, 80, 68, 70>>
\* "%PD": the PDF signature cut short
FragPdfCut == <<37, 80, 68>>
\* "PK"
FragZipMagic == <<80, 75>>
\* a byte that is never valid in UTF-8
FragInvalid == <<255>>
\* "가" in UTF-8
FragHangul == <<234, 176, 128>>
\* the end-of-central-directory record of an empty ZIP archive: "PK\5\6"
\* and eighteen zero bytes
EocdSignature == <<80, 75, 5, 6>>
FragEocd == EocdSignature \o [i \in 1..18 |-> 0]

Fragments ==
  {FragPdfMagic, FragPdfCut, FragZipMagic, FragInvalid, FragHangul,
   FragDocxRun, FragPdfBlock, FragEocd}

RECURSIVE BuffersOf(_)
BuffersOf(n) ==
  IF n = 0 THEN {<<>>}
  ELSE LET shorter == BuffersOf(n - 1)
       IN  shorter \cup {b \o f : b \in shorter, f \in Fragments}

Buffers == BuffersOf(MaxFrags)

FileNames ==
  {NameRfpPdf, NameNotesDocx, NameLowerTxt, NameUpperTxt, NameUpperDocx,
   NameProposalDocx}

\* what word/document.xml may hold
XmlContents == {<<>>, XmlShort, XmlBlank, XmlParagraph, XmlRunOnly}

\* what new Date().toLocaleDateString('ko-KR') may return
LocaleDates == {SampleDate}

(***************************************************************************)
(* JSZip.  loadAsync needs an end-of-central-directory record (22 bytes    *)
(* from its signature) in the buffer and throws without one; what the      *)
(* archive holds is compressed, so the model lets it hold any XmlContents. *)
(***************************************************************************)
ZipLoadable(b) ==
  \E i \in 1..Len(b) : MatchAt(b, i, EocdSignature) /\ i + 21 <= Len(b)


(***************************************************************************)
(* pdf-parse and pdf-lib.  Both throw on a buffer that holds no header     *)
(* signature "%PDF"; what they make of one that does is theirs to say:     *)
(* either may still throw, pdf-parse may resolve with any of PdfDatas and  *)
(* PDFDocument.load with any of PdfDocs (the content streams of a PDF are  *)
(* compressed, so the text and the info dictionary do not show in the      *)
(* bytes the model writes out).                                            *)
(***************************************************************************)
PdfReadable(b) == Includes(b, FragPdfMagic)

\* pdfData.text: none (a scanned document), blank, two pages of text, a
\* text whose length no page count above 1 divides
PdfTexts == {<<>>, PdfTextBlank, PdfTextTwoPages, PdfTextUneven}

\* pdfData.info: no entries, empty entries, every entry
PdfInfos ==
  {[Title |-> Undefined, Author |-> Undefined, Subject |-> Undefined,
    Creator |-> Undefined, CreationDate |-> Undefined, ModDate |-> Undefined],
   [Title |-> Some(<<>>), Author |-> Some(<<>>), Subject |-> Some(<<>>),
    Creator |-> Some(<<>>), CreationDate |-> Some(<<>>), ModDate |-> Some(<<>>)],
   [Title |-> Some(TitleSample), Author |-> Some(AuthorSample),
    Subject |-> Some(SubjectSample), Creator |-> Some(CreatorSample),
    CreationDate |-> Some(PdfDateSample), ModDate |-> Some(PdfDateSample)]}

PdfDatas == [text : PdfTexts, numpages : 0..MaxPages, info : PdfInfos]

\* what the getters of a loaded document return: nothing, empty strings
\* and no dates, every value
PdfDocInfos ==
  {[title |-> Undefined, author |-> Undefined, subject |-> Undefined,
    creator |-> Undefined, creationDate |-> Undefined,
    modificationDate |-> Undefined],
   [title |-> Some(<<>>), author |-> Some(<<>>), subject |-> Some(<<>>),
    creator |-> Some(<<>>), creationDate |-> Undefined,
    modificationDate |-> Undefined],
   [title |-> Some(TitleSample), author |-> Some(AuthorSample),
    subject |-> Some(SubjectSample), creator |-> Some(CreatorSample),
    creationDate |-> Some(IsoDateSample),
    modificationDate |-> Some(IsoDateSample)]}

\* a loaded document: getPageCount(), no page or MaxPages pages, and the
\* getters
PdfDocs == {[pageCount |-> n] @@ info : n \in {0, MaxPages}, info \in PdfDocInfos}

(***************************************************************************)
(* The state machine: one call of the service, one step per await.         *)
(***************************************************************************)
VARIABLES
  pc,        \* where the call stands
  buffer,    \* its buffer argument
  fileName,  \* its fileName argument
  rungs,     \* the methods and catch blocks it entered, in order
  metadata,  \* the metadata extractWithPdfLib has read, if it has
  result,    \* what the call returned, or the error it threw
  outcomes,  \* what every rung of the call that has ended came to, in order
  analyses,  \* the calls of analyzeDocumentStructure that have returned
  hpc,       \* where the handler of POST /api/customers/rfp-analysis stands
  calls,     \* the methods of its PdfParserService the handler has called
  response,  \* the response the handler returned
  store      \* what the handler wrote to globalMemoryStore and to env.KV

vars ==
  <<pc, buffer, fileName, rungs, metadata, result, outcomes, analyses, hpc,
    calls, response, store>>

\* what a call of the parser leaves alone
beyond == <<analyses, hpc, calls, response, store>>

NoResult == [kind |-> "none"]

NoResponse ==
  [status |-> 0, success |-> FALSE, error |-> <<>>, extracted_text_length |-> 0,
   analysis |-> "none"]

\* a rung that threw, a rung that ran to its end with text
Threw(rung) == [rung |-> rung, threw |-> TRUE, text |-> <<>>]
Produced(rung, text) == [rung |-> rung, threw |-> FALSE, text |-> text]

\* the rungs inside extractDocxFallback for the cleanText of its raw regex
\* scan and the result res it resolved with: the scan and, if it threw, the
\* catch block, if its text was too short, fallbackContent
DocxFallbackOutcomes(cleanText, res) ==
  IF res.extraction_method = "docx_error"
    THEN <<Threw("extractDocxFallback"),
           Produced("extractDocxFallback.catch", res.text)>>
  ELSE IF res.extraction_method = "docx_filename_fallback"
    THEN <<Produced("extractDocxFallback", cleanText),
           Produced("fallbackContent", res.text)>>
  ELSE <<Produced("extractDocxFallback", cleanText)>>

Init ==
  /\ pc = "idle"
  /\ buffer = <<>>
  /\ fileName = <<>>
  /\ rungs = <<>>
  /\ metadata = Undefined
  /\ result = NoResult
  /\ outcomes = <<>>
  /\ analyses = <<>>
  /\ hpc = "idle"
  /\ calls = <<>>
  /\ response = NoResponse
  /\ store = <<>>

\* validateFileType(buffer, fileName): synchronous
ValidateFileType(b, name) ==
  /\ pc = "idle"
  /\ pc' = "done"
  /\ buffer' = b
  /\ fileName' = name
  /\ rungs' = <<"validateFileType">>
  /\ result' = [kind |-> "classification"] @@ validateFileType(b, name)
  /\ UNCHANGED <<metadata, outcomes, beyond>>

\* extractTextFromDocx(buffer, fileName) up to `await zip.loadAsync`
ExtractTextFromDocx(b, name) ==
  /\ pc = "idle"
  /\ pc' = "docxLoad"
  /\ buffer' = b
  /\ fileName' = name
  /\ rungs' = <<"extractTextFromDocx">>
  /\ UNCHANGED <<metadata, result, outcomes, beyond>>

\* the text of the ZIP/XML rung returned under its tag whatever it came to
ReturnZipText(zipOutcome) ==
  /\ result' = [kind |-> "docx", text |-> zipOutcome.text,
                extraction_method |-> "jszip_docx"]
  /\ outcomes' = <<zipOutcome>>
  /\ pc' = "done"
  /\ UNCHANGED <<buffer, fileName, rungs, metadata, beyond>>

\* return this.extractDocxFallback(docxBuffer, fileName), after the ZIP/XML
\* rung came to zipOutcome
ReturnDocxFallback(zipOutcome) ==
  /\ \E date \in LocaleDates, threw \in BOOLEAN :
       result' = extractDocxFallback(buffer, fileName, date, threw)
  /\ outcomes' = <<zipOutcome>> \o DocxFallbackOutcomes(RawCleanText(buffer), result')
  /\ rungs' = Append(rungs, "extractDocxFallback")
  /\ pc' = "done"
  /\ UNCHANGED <<buffer, fileName, metadata, beyond>>

\* loadAsync rejects: the catch block
DocxLoadThrows ==
  /\ pc = "docxLoad"
  /\ ReturnDocxFallback(Threw("extractTextFromDocx"))

\* loadAsync resolves with an archive without word/document.xml
DocxPartMissing ==
  /\ pc = "docxLoad"
  /\ ZipLoadable(buffer)
  /\ ReturnDocxFallback(Produced("extractTextFromDocx", <<>>))

\* loadAsync resolves with an archive that holds word/document.xml, up to
\* `await documentXml.async('string')`
DocxPartFound ==
  /\ pc = "docxLoad"
  /\ ZipLoadable(buffer)
  /\ pc' = "docxRead"
  /\ UNCHANGED <<buffer, fileName, rungs, metadata, result, outcomes, beyond>>

\* async('string') rejects: the catch block
DocxReadThrows ==
  /\ pc = "docxRead"
  /\ ReturnDocxFallback(Threw("extractTextFromDocx"))

\* async('string') resolves with xml: the rest of the try block
DocxReadReturns(xml) ==
  /\ pc = "docxRead"
  /\ LET Resolve(cleanText) ==
           IF DocxTooShort(cleanText)
             THEN ReturnDocxFallback(Produced("extractTextFromDocx", cleanText))
             ELSE /\ result' = [kind |-> "docx", text |-> cleanText,
                                extraction_method |-> "jszip_docx"]
                  /\ outcomes' = <<Produced("extractTextFromDocx", cleanText)>>
                  /\ pc' = "done"
                  /\ UNCHANGED <<buffer, fileName, rungs, metadata, beyond>>
     IN  Resolve(DocxCleanText(xml))

\* extractTextFromPdf(buffer, fileName) up to `await pdfParse`
ExtractTextFromPdf(b, name) ==
  /\ pc = "idle"
  /\ pc' = "pdfParse"
  /\ buffer' = b
  /\ fileName' = name
  /\ rungs' = <<"extractTextFromPdf">>
  /\ UNCHANGED <<metadata, result, outcomes, beyond>>

\* pdfParse resolves with pdfData: the rest of the inner try block
PdfParseReturns(pdfData) ==
  /\ pc = "pdfParse"
  /\ PdfReadable(buffer)
  /\ result' = PrimaryResult(pdfData, buffer)
  /\ outcomes' = <<Produced("extractTextFromPdf", pdfData.text)>>
  /\ pc' = "done"
  /\ UNCHANGED <<buffer, fileName, rungs, metadata, beyond>>

\* require or pdfParse throws: the inner catch block returns the promise of
\* extractWithPdfLib, which runs up to `await PDFDocument.load`
PdfParseThrows ==
  /\ pc = "pdfParse"
  /\ pc' = "pdfLibLoad"
  /\ rungs' = Append(rungs, "extractWithPdfLib")
  /\ outcomes' = <<Threw("extractTextFromPdf")>>
  /\ UNCHANGED <<buffer, fileName, metadata, result, beyond>>

\* PDFDocument.load rejects: the catch block of extractWithPdfLib throws,
\* and the promise extractTextFromPdf returned rejects with it
PdfLibLoadThrows ==
  /\ pc = "pdfLibLoad"
  /\ result' = PdfLibError(LoadFailureMessage)
  /\ outcomes' = Append(outcomes, Threw("extractWithPdfLib"))
  /\ pc' = "thrown"
  /\ UNCHANGED <<buffer, fileName, rungs, metadata, beyond>>

\* PDFDocument.load resolves with pdfDoc: the metadata is read and
\* extractWithFallbackMethod is called, up to its await
PdfLibLoadReturns(pdfDoc) ==
  /\ pc = "pdfLibLoad"
  /\ PdfReadable(buffer)
  /\ metadata' = Some(PdfLibMetadata(pdfDoc, buffer))
  /\ rungs' = Append(rungs, "extractWithFallbackMethod")
  /\ pc' = "pdfScan"
  /\ UNCHANGED <<buffer, fileName, result, outcomes, beyond>>

\* the try block of extractWithFallbackMethod runs to its return: the rest
\* of the try block of extractWithPdfLib
ScanReturns ==
  /\ pc = "pdfScan"
  /\ result' = PdfLibResult(metadata[1], extractWithFallbackMethod(buffer))
  /\ outcomes' = Append(outcomes, Produced("extractWithPdfLib", result'.text))
  /\ pc' = "done"
  /\ UNCHANGED <<buffer, fileName, rungs, metadata, beyond>>

\* the try block of extractWithFallbackMethod throws (push(...matches) does
\* on a match array longer than the engine's argument limit): its catch
\* block throws on reading fileName, before extractPlainTextFromBinary is
\* called, and the catch block of extractWithPdfLib throws in turn
ScanThrows ==
  /\ pc = "pdfScan"
  /\ result' = PdfLibError(FileNameNotDefined)
  /\ rungs' = Append(rungs, "extractWithFallbackMethod.catch")
  /\ outcomes' = outcomes \o <<Threw("extractWithFallbackMethod"),
                                Threw("extractWithFallbackMethod.catch"),
                                Threw("extractWithPdfLib")>>
  /\ pc' = "thrown"
  /\ UNCHANGED <<buffer, fileName, metadata, beyond>>

Next ==
  \/ \E b \in Buffers, name \in FileNames : ValidateFileType(b, name)
  \/ \E b \in Buffers, name \in FileNames : ExtractTextFromDocx(b, name)
  \/ DocxLoadThrows
  \/ DocxPartMissing
  \/ DocxPartFound
  \/ DocxReadThrows
  \/ \E xml \in XmlContents : DocxReadReturns(xml)
  \/ \E b \in Buffers, name \in FileNames : ExtractTextFromPdf(b, name)
  \/ \E pdfData \in PdfDatas : PdfParseReturns(pdfData)
  \/ PdfParseThrows
  \/ PdfLibLoadThrows
  \/ \E pdfDoc \in PdfDocs : PdfLibLoadReturns(pdfDoc)
  \/ ScanReturns
  \/ ScanThrows

Spec == Init /\ [][Next]_vars

(***************************************************************************)
(* analyzeDocumentStructure.  The method is async and awaits nothing: a    *)
(* call runs from its first statement to its return without another call   *)
(* of the same isolate running in between, so a call is one step.          *)
(***************************************************************************)

\* how many calls of analyzeDocumentStructure a behaviour makes
MaxCalls == 3

\* the PdfParserService instances the calls are made on
Instances == {1, 2}

\* 1. 프로젝트 개요
LineHeadingOverview ==
  <<49, 46, 32, 54532, 47196, 51229, 53944, 32, 44060, 50836>>

\* 2. 예산
LineHeadingBudget == <<50, 46, 32, 50696, 49328>>

\* 본문 text here
LineBody == <<48376, 47928, 32, 116, 101, 120, 116, 32, 104, 101, 114, 101>>

\* other body
LineOtherBody == <<111, 116, 104, 101, 114, 32, 98, 111, 100, 121>>

\* the two headings, each followed by its body
TextTwoSections ==
  Join(<<LineHeadingOverview, LineBody, LineHeadingBudget, LineOtherBody>>,
       <<10>>)

\* two body lines with a blank line between them
TextBlankLine == Join(<<LineBody, <<>>, LineOtherBody>>, <<10>>)

\* body, a heading, body, and a line feed at the end
TextEndsWithLineFeed ==
  Join(<<LineBody, LineHeadingBudget, LineOtherBody, <<>>>>, <<10>>)

StructureTexts ==
  {TextTwoSections, TextBlankLine, TextEndsWithLineFeed,
   LineHeadingOverview}

StructureNames == {NameRfpPdf, NameNotesDocx}

\* the calls on the instance that have returned
CallsOn(instance) == SelectSeq(analyses, LAMBDA a : a.instance = instance)

\* identifyDocumentSections with sections kept on the instance between calls
SectionsKeptOn(instance, text) ==
  IF CallsOn(instance) = <<>> THEN identifyDocumentSections(text)
  ELSE CallsOn(instance)[Len(CallsOn(instance))].structure.sections
         \o identifyDocumentSections(text)

\* this.identifyDocumentSections(text) on an instance: the class declares no
\* field, and sections, sectionPatterns and currentSection are locals of the
\* call
SectionsOn(instance, text) == identifyDocumentSections(text)

analyzeDocumentStructure(instance, text, name) ==
  [sections |-> SectionsOn(instance, text),
   document_type |-> estimateDocumentType(text, name),
   key_topics |-> extractKeyTopics(text),
   estimated_reading_time |-> CeilDiv(WordCount(text), 200)]

\* a call of analyzeDocumentStructure on an instance, from entry to return
AnalyzeDocumentStructure(instance, text, name) ==
  /\ Len(analyses) < MaxCalls
  /\ analyses' = Append(analyses,
                        [instance |-> instance, text |-> text,
                         fileName |-> name,
                         structure |-> analyzeDocumentStructure(instance, text, name)])
  /\ UNCHANGED <<pc, buffer, fileName, rungs, metadata, result, outcomes,
                 hpc, calls, response, store>>

StructureNext ==
  \E instance \in Instances, text \in StructureTexts, name \in StructureNames :
    AnalyzeDocumentStructure(instance, text, name)

StructureSpec == Init /\ [][StructureNext]_vars

(***************************************************************************)
(* The handler of POST /api/customers/rfp-analysis.  It makes a            *)
(* PdfParserService of its own and awaits each call it makes on it, so     *)
(* the steps of the parser run while the handler stands at its await.      *)
(* The request carries the file_name field; what the analysis services     *)
(* return is kept only as which of them ran.                               *)
(***************************************************************************)

\* 'multipart/form-data Content-Type이 필요합니다'
ErrContentType ==
  <<109, 117, 108, 116, 105, 112, 97, 114, 116, 47, 102, 111, 114, 109, 45,
    100, 97, 116, 97, 32, 67, 111, 110, 116, 101, 110, 116, 45, 84, 121,
    112, 101, 51060, 32, 54596, 50836, 54633, 45768, 45796>>

\* 'RFP 파일이 필요합니다'
ErrNoFile ==
  <<82, 70, 80, 32, 54028, 51068, 51060, 32, 54596, 50836, 54633, 45768,
    45796>>

\* '지원하지 않는 파일 형식입니다 ('
ErrUnsupportedHead ==
  <<51648, 50896, 54616, 51648, 32, 50506, 45716, 32, 54028, 51068, 32,
    54805, 49885, 51077, 45768, 45796, 32, 40>>

\* '). PDF 또는 DOCX 파일을 업로드해주세요.'
ErrUnsupportedTail ==
  <<41, 46, 32, 80, 68, 70, 32, 46608, 45716, 32, 68, 79, 67, 88, 32,
    54028, 51068, 51012, 32, 50629, 47196, 46300, 54644, 51452, 49464,
    50836, 46>>

\* '문서에서 텍스트를 추출할 수 없습니다: '
ErrExtractHead ==
  <<47928, 49436, 50640, 49436, 32, 53581, 49828, 53944, 47484, 32, 52628,
    52636, 54624, 32, 49688, 32, 50630, 49845, 45768, 45796, 58, 32>>

\* '업로드된 문서 분석 - '
BasicTextHead ==
  <<50629, 47196, 46300, 46108, 32, 47928, 49436, 32, 48516, 49437, 32, 45,
    32>>

\* from the end of the first line to '파일명: '
BasicTextName ==
  <<10, 32, 32, 32, 32, 32, 32, 10, 32, 32, 32, 32, 32, 32, 51060, 32,
    47928, 49436, 45716, 32, 82, 70, 80, 32, 40, 51228, 50504, 50836,
    52397, 49436, 41, 32, 46608, 45716, 32, 44288, 47144, 32, 47928, 49436,
    47196, 32, 52628, 51221, 46121, 45768, 45796, 46, 10, 32, 32, 32, 32,
    32, 32, 54028, 51068, 47749, 58, 32>>

\* from the end of the file name line to '파일 크기: '
BasicTextSize ==
  <<10, 32, 32, 32, 32, 32, 32, 54028, 51068, 32, 53356, 44592, 58, 32>>

\* ' bytes' and the list under 기본 분석 항목
BasicTextTail ==
  <<32, 98, 121, 116, 101, 115, 10, 32, 32, 32, 32, 32, 32, 10, 32, 32, 32,
    32, 32, 32, 44592, 48376, 32, 48516, 49437, 32, 54637, 47785, 58, 10,
    32, 32, 32, 32, 32, 32, 45, 32, 54532, 47196, 51229, 53944, 32, 44060,
    50836, 32, 48143, 32, 47785, 54364, 10, 32, 32, 32, 32, 32, 32, 45, 32,
    44592, 49696, 32, 50836, 44396, 49324, 54637, 10, 32, 32, 32, 32, 32,
    32, 45, 32, 49324, 50629, 32, 48276, 50948, 32, 48143, 32, 44592,
    44036, 10, 32, 32, 32, 32, 32, 32, 45, 32, 54217, 44032, 32, 44592,
    51456, 10, 32, 32, 32, 32, 32, 32, 45, 32, 51228, 52636, 32, 50836,
    44396, 49324, 54637>>

\* the fileType of a classification as the handler's template prints it
TypeName(fileType) ==
  CASE fileType = "pdf" -> <<112, 100, 102>>
    [] fileType = "docx" -> <<100, 111, 99, 120>>
    [] fileType = "txt" -> <<116, 120, 116>>
    [] OTHER -> <<117, 110, 107, 110, 111, 119, 110>>

\* String(n) for n >= 0
RECURSIVE Decimal(_)
Decimal(n) ==
  IF n < 10 THEN <<48 + n>> ELSE Decimal(n \div 10) \o <<48 + (n % 10)>>

\* `지원하지 않는 파일 형식입니다 (${fileValidation.fileType}). ...`
ErrUnsupported(fileType) ==
  ErrUnsupportedHead \o TypeName(fileType) \o ErrUnsupportedTail

\* the test that lets every classification through
RejectedNever(fileValidation) == FALSE

\* if (!fileValidation.isValid)
Rejected(fileValidation) == ~fileValidation.isValid

\* the text the handler puts in place of a short one
BasicText(name, byteLength) ==
  BasicTextHead \o name \o BasicTextName \o name \o BasicTextSize
    \o Decimal(byteLength) \o BasicTextTail

\* if (!extractedText || extractedText.length < 10)
TextTooShort(extractedText) == Len(extractedText) < 10

\* extractedText after the test of its length
TextToAnalyse(extractedText, name, byteLength) ==
  IF TextTooShort(extractedText) THEN BasicText(name, byteLength)
  ELSE extractedText

\* which service made rfpAnalysisData
AnalysisBy(extractedText, hasKey, chunkedResolves) ==
  IF hasKey /\ Len(extractedText) > 50
    THEN IF chunkedResolves THEN "generateRfpAnalysisChunked"
         ELSE "generateNLPRfpAnalysis"
  ELSE "generateBasicRfpAnalysis"

ErrorResponse(status, message) ==
  [status |-> status, success |-> FALSE, error |-> message,
   extracted_text_length |-> 0, analysis |-> "none"]

SuccessResponse(extractedText, by) ==
  [status |-> 200, success |-> TRUE, error |-> <<>>,
   extracted_text_length |-> Len(extractedText), analysis |-> by]

\* analysisResult as far as it depends on the extraction
AnalysisResult(to, name, byteLength, extractedText) ==
  [to |-> to, file_name |-> name, file_size |-> byteLength,
   extracted_text_length |-> Len(extractedText)]

\* globalMemoryStore.set, and env.KV.put if env.KV is bound; an error of put
\* is caught and logged
Stored(name, byteLength, extractedText, hasKV, putThrows) ==
  <<AnalysisResult("globalMemoryStore", name, byteLength, extractedText)>>
    \o (IF hasKV /\ ~putThrows
          THEN <<AnalysisResult("KV", name, byteLength, extractedText)>>
          ELSE <<>>)

\* the request arrives: up to the call of validateFileType, or to one of the
\* first two returns
ReceiveRequest(multipart, hasFile, b, name) ==
  /\ hpc = "idle"
  /\ pc = "idle"
  /\ IF ~multipart
       THEN /\ response' = ErrorResponse(400, ErrContentType)
            /\ hpc' = "responded"
            /\ UNCHANGED <<buffer, fileName, calls>>
     ELSE IF ~hasFile
       THEN /\ response' = ErrorResponse(400, ErrNoFile)
            /\ hpc' = "responded"
            /\ UNCHANGED <<buffer, fileName, calls>>
     ELSE /\ buffer' = b
          /\ fileName' = name
          /\ calls' = <<"validateFileType">>
          /\ hpc' = "validate"
          /\ UNCHANGED response
  /\ UNCHANGED <<pc, rungs, metadata, result, outcomes, analyses, store>>

\* pdfParser.validateFileType(fileBuffer, fileName)
HandlerValidates ==
  /\ hpc = "validate"
  /\ ValidateFileType(buffer, fileName)

\* the classification is not valid: the third return
HandlerRejects ==
  /\ hpc = "validate"
  /\ pc = "done"
  /\ Rejected(result)
  /\ response' = ErrorResponse(400, ErrUnsupported(result.fileType))
  /\ hpc' = "responded"
  /\ UNCHANGED <<pc, buffer, fileName, rungs, metadata, result, outcomes,
                 analyses, calls, store>>

\* a handler that hands a text file to the DOCX extractor: not the code's
HandlerCallsExtractorOnText ==
  /\ hpc = "validate"
  /\ pc = "done"
  /\ ~Rejected(result)
  /\ result.fileType \in {"pdf", "docx", "txt"}
  /\ hpc' = IF result.fileType = "pdf" THEN "extractPdf" ELSE "extractDocx"
  /\ calls' = Append(calls, IF result.fileType = "pdf" THEN "extractTextFromPdf"
                            ELSE "extractTextFromDocx")
  /\ pc' = "idle"
  /\ UNCHANGED <<buffer, fileName, rungs, metadata, result, outcomes,
                 analyses, response, store>>

\* the classification is pdf or docx: the handler calls the extractor
HandlerCallsExtractor ==
  /\ hpc = "validate"
  /\ pc = "done"
  /\ ~Rejected(result)
  /\ result.fileType \in {"pdf", "docx"}
  /\ hpc' = IF result.fileType = "pdf" THEN "extractPdf" ELSE "extractDocx"
  /\ calls' = Append(calls, IF result.fileType = "pdf" THEN "extractTextFromPdf"
                            ELSE "extractTextFromDocx")
  /\ pc' = "idle"
  /\ UNCHANGED <<buffer, fileName, rungs, metadata, result, outcomes,
                 analyses, response, store>>

\* await pdfParser.extractTextFromPdf(fileBuffer, fileName): its first step
HandlerExtractsPdf ==
  /\ hpc = "extractPdf"
  /\ ExtractTextFromPdf(buffer, fileName)

\* await pdfParser.extractTextFromDocx(fileBuffer, fileName): its first step
HandlerExtractsDocx ==
  /\ hpc = "extractDocx"
  /\ ExtractTextFromDocx(buffer, fileName)

\* the extractor rejects: the inner catch block throws, the outer one
\* returns the error
HandlerExtractionThrew ==
  /\ hpc \in {"extractPdf", "extractDocx"}
  /\ pc = "thrown"
  /\ response' = ErrorResponse(500, ErrExtractHead \o result.message)
  /\ hpc' = "responded"
  /\ UNCHANGED <<pc, buffer, fileName, rungs, metadata, result, outcomes,
                 analyses, calls, store>>

\* extractedText when the inner try block is left: the text of the
\* extractor, '' for a txt file, for which none is called
ExtractedText ==
  IF hpc \in {"extractPdf", "extractDocx"} THEN result.text ELSE <<>>

\* from the test of extractedText to the last return
HandlerReturnsAnalysis(hasKey, chunkedResolves, hasKV, putThrows) ==
  /\ \/ hpc \in {"extractPdf", "extractDocx"} /\ pc = "done"
     \/ hpc = "validate" /\ pc = "done" /\ ~Rejected(result)
          /\ result.fileType \notin {"pdf", "docx"}
  /\ response' =
       SuccessResponse(TextToAnalyse(ExtractedText, fileName, Len(buffer)),
                       AnalysisBy(TextToAnalyse(ExtractedText, fileName, Len(buffer)),
                                  hasKey, chunkedResolves))
  /\ store' = Stored(fileName, Len(buffer),
                     TextToAnalyse(ExtractedText, fileName, Len(buffer)),
                     hasKV, putThrows)
  /\ hpc' = "responded"
  /\ UNCHANGED <<pc, buffer, fileName, rungs, metadata, result, outcomes,
                 analyses, calls>>

HandlerNext ==
  \/ \E multipart \in BOOLEAN, hasFile \in BOOLEAN, b \in Buffers,
        name \in FileNames : ReceiveRequest(multipart, hasFile, b, name)
  \/ HandlerValidates
  \/ HandlerRejects
  \/ HandlerCallsExtractor
  \/ HandlerExtractsPdf
  \/ HandlerExtractsDocx
  \/ DocxLoadThrows
  \/ DocxPartMissing
  \/ DocxPartFound
  \/ DocxReadThrows
  \/ \E xml \in XmlContents : DocxReadReturns(xml)
  \/ \E pdfData \in PdfDatas : PdfParseReturns(pdfData)
  \/ PdfParseThrows
  \/ PdfLibLoadThrows
  \/ \E pdfDoc \in PdfDocs : PdfLibLoadReturns(pdfDoc)
  \/ ScanReturns
  \/ ScanThrows
  \/ HandlerExtractionThrew
  \/ \E hasKey \in BOOLEAN, chunkedResolves \in BOOLEAN, hasKV \in BOOLEAN,
        putThrows \in BOOLEAN :
       HandlerReturnsAnalysis(hasKey, chunkedResolves, hasKV, putThrows)

HandlerSpec == Init /\ [][HandlerNext]_vars


(***************************************************************************)
(* The DOCX ladder on long documents: the calls of extractTextFromDocx     *)
(* over the one-fragment buffers and a buffer whose raw text run is longer *)
(* than DocxFallbackLimit, the archive holding any XmlContents or a        *)
(* document whose text run is longer than DocxTextLimit.                   *)
(***************************************************************************)
\* the units of the text run of the long buffer, of the long document
LongRawRun == 20010
LongXmlRun == 50010

\* <w:t>aaaaaa aaaaaa ...</w:t> with a text of n units
LongElement(n) ==
  <<60, 119, 58, 116, 62>> \o [i \in 1..n |-> IF i % 7 = 0 THEN 32 ELSE 97]
    \o <<60, 47, 119, 58, 116, 62>>

LongBuffer == LongElement(LongRawRun)

XmlLong == LongElement(LongXmlRun)

LimitNames == {NameRfpPdf, NameNotesDocx, NameProposalDocx, NameUpperDocx}

\* the calls: <<buffer, fileName>>
LimitCalls ==
  {<<b, name>> : b \in BuffersOf(1), name \in LimitNames}
    \cup {<<LongBuffer, NameNotesDocx>>}

LimitXmls == XmlContents \cup {XmlLong}

LimitNext ==
  \/ \E call \in LimitCalls : ExtractTextFromDocx(call[1], call[2])
  \/ DocxLoadThrows
  \/ DocxPartMissing
  \/ DocxPartFound
  \/ DocxReadThrows
  \/ \E xml \in LimitXmls : DocxReadReturns(xml)

LimitSpec == Init /\ [][LimitNext]_vars

(***************************************************************************)
(* Single calls of analyzeDocumentStructure over texts of up to two words  *)
(* drawn from the keyword lists of estimateDocumentType, in either case,   *)
(* and over file names with and without a keyword; and over texts of       *)
(* more than ten different words for extractKeyTopics.                     *)
(***************************************************************************)
\* RFP
WordRfpUpper ==
  <<82, 70, 80>>

\* Proposal
WordProposalTitle ==
  <<80, 114, 111, 112, 111, 115, 97, 108>>

\* 보고서
WordReportKo ==
  <<48372, 44256, 49436>>

\* PPT
WordPptUpper ==
  <<80, 80, 84>>

\* memo
WordMemo ==
  <<109, 101, 109, 111>>

\* REPORT.pdf
NameUpperReport ==
  <<82, 69, 80, 79, 82, 84, 46, 112, 100, 102>>

TypeWords == {WordRfpUpper, WordProposalTitle, WordReportKo, WordPptUpper, WordMemo}

TypeTexts == {<<>>} \cup TypeWords \cup {v \o <<32>> \o w : v \in TypeWords, w \in TypeWords}

TypeNames == {NameNotesDocx, NameRfpPdf, NameProposalDocx, NameUpperReport}

\* twelve words of three letters, each once: aaa bbb ccc ddd eee fff ggg hhh iii jjj kkk lll
TopicBase ==
  <<97, 97, 97, 32,
    98, 98, 98, 32,
    99, 99, 99, 32,
    100, 100, 100, 32,
    101, 101, 101, 32,
    102, 102, 102, 32,
    103, 103, 103, 32,
    104, 104, 104, 32,
    105, 105, 105, 32,
    106, 106, 106, 32,
    107, 107, 107, 32,
    108, 108, 108>>

\* the twelve words: aaa, bbb, ... lll
TopicWord(d) == SubSeq(TopicBase, 4 * d - 3, 4 * d - 1)

\* AAA, in capitals
WordCapitals == <<65, 65, 65>>
\* 그리고 그리고 그리고 ab ab ab: a stop word and a word of two letters, thrice
TopicNoise ==
  <<44536, 47532, 44256, 32, 44536, 47532, 44256, 32, 44536, 47532, 44256, 32, 97, 98, 32, 97, 98, 32, 97, 98>>

\* the twelve words and one of them again; and capitals, noise or nothing
TopicTexts ==
  {TopicBase \o <<32>> \o TopicWord(d) : d \in 1..12}
    \cup {TopicBase, TopicBase \o <<32>> \o WordCapitals,
          TopicNoise \o <<32>> \o TopicBase,
          TopicNoise \o <<32>> \o TopicBase \o <<32>> \o TopicWord(11)}

\* the texts of the calls
CallTexts == TypeTexts \cup TopicTexts

TypeNext ==
  \E text \in CallTexts, name \in TypeNames :
    /\ analyses = <<>>
    /\ AnalyzeDocumentStructure(1, text, name)

TypeSpec == Init /\ [][TypeNext]_vars

(***************************************************************************)
(* Calls of estimatePageBreaks over texts put together from segments just  *)
(* above and at PageMinLength and from the four kinds of page mark.        *)
(***************************************************************************)
MaxPieces == 3

\* a segment of PageMinLength + 1 units, one of PageMinLength units
PieceLong == [i \in 1..(PageMinLength + 1) |-> 120]
PieceAtLimit == [i \in 1..PageMinLength |-> 121]
\* a form feed
MarkFormFeed == <<12>>
\* 페이지 1
MarkPageKo ==
  <<54168, 51060, 51648, 32, 49>>
\* PAGE2
MarkPageEn ==
  <<80, 65, 71, 69, 50>>
\* - 3 -
MarkDashes ==
  <<45, 32, 51, 32, 45>>

Pieces == {PieceLong, PieceAtLimit, MarkFormFeed, MarkPageKo, MarkPageEn, MarkDashes}

RECURSIVE PieceTextsOf(_)
PieceTextsOf(n) ==
  IF n = 0 THEN {<<>>}
  ELSE LET shorter == PieceTextsOf(n - 1)
       IN  shorter \cup {t \o p : t \in shorter, p \in Pieces}

\* a form feed that splits off nothing long before a page mark that does;
\* a form feed and a page mark that both split
TextLatePattern == MarkFormFeed \o PieceLong \o MarkPageEn \o PieceLong
TextTwoPatterns ==
  PieceLong \o MarkFormFeed \o PieceLong \o MarkPageEn \o PieceLong

PageTexts == PieceTextsOf(MaxPieces) \cup {TextLatePattern, TextTwoPatterns}

\* a call of estimatePageBreaks(text), from entry to return
EstimatePageBreaks(text) ==
  /\ pc = "idle"
  /\ pc' = "done"
  /\ rungs' = <<"estimatePageBreaks">>
  /\ result' = [kind |-> "pageBreaks", text |-> text,
                pages |-> estimatePageBreaks(text)]
  /\ UNCHANGED <<buffer, fileName, metadata, outcomes, beyond>>

PageNext == \E text \in PageTexts : EstimatePageBreaks(text)

PageSpec == Init /\ [][PageNext]_vars
(***************************************************************************)
(* The properties                                                          *)
(***************************************************************************)
\* s.trim().length = 0
Blank(s) == Len(Trim(s)) = 0

\* buffer starts with the bytes lit
StartsWith(b, lit) == Len(b) >= Len(lit) /\ SubSeq(b, 1, Len(lit)) = lit

\* the call was one of validateFileType and has returned
Classified == pc = "done" /\ result.kind = "classification"

\* the call of extractTextFromPdf has returned a result
PdfReturned == pc = "done" /\ result.kind = "pdf"

\* the call of extractTextFromDocx has returned a result
DocxReturned == pc = "done" /\ result.kind = "docx"

\* the call entered the method or catch block named rung
Entered(rung) == \E k \in 1..Len(rungs) : rungs[k] = rung

\* C1: the text of every result of extractTextFromPdf has length > 0 after
\* trimming, whichever rung produced it.  The code does not keep it: the
\* primary rung returns pdfData.text as it is, and the scan that matches
\* nothing returns the single page ''.
C1_PdfTextNotBlank == PdfReturned => ~Blank(result.text)

\* C2: the text of every result of extractTextFromDocx has length > 0 after
\* trimming, whichever rung produced it.
C2_DocxTextNotBlank == DocxReturned => ~Blank(result.text)

\* the ZIP/XML rung was judged insufficient or threw, the raw regex rung
\* found too little, and the filename placeholder was returned
C2_Witness ==
  /\ DocxReturned
  /\ Entered("extractDocxFallback")
  /\ result.extraction_method = "docx_filename_fallback"
  /\ ~Blank(result.text)

\* C3: extractTextFromPdf never rejects: no call ends with an error thrown
\* to its caller.  The code does not keep it: when PDFDocument.load or the
\* scan throws, extractWithPdfLib throws.
C3_PdfNeverRejects == ~(Entered("extractTextFromPdf") /\ pc = "thrown")

\* C4: when the primary parse threw, the result of extractTextFromPdf is
\* not tagged 'pdf-parse'.
C4_TagAfterPrimaryThrew ==
  (PdfReturned /\ Entered("extractWithPdfLib"))
    => result.extraction_method # "pdf-parse"

\* the primary parse threw and the scan's result was returned
C4_Witness ==
  /\ PdfReturned
  /\ Entered("extractWithPdfLib")
  /\ result.extraction_method = "fallback"

\* C5: a buffer that starts with %PDF is classified as a valid pdf with
\* mime type application/pdf, whatever the file name.
C5_PdfMagicWins ==
  (Classified /\ StartsWith(buffer, <<37, 80, 68, 70>>))
    => /\ result.isValid = TRUE
       /\ result.fileType = "pdf"
       /\ result.mimeType = "application/pdf"

\* a buffer that starts with %PDF was classified under a name that ends in
\* .txt or in .docx
C5_Witness ==
  /\ Classified
  /\ StartsWith(buffer, <<37, 80, 68, 70>>)
  /\ fileName \in {NameLowerTxt, NameNotesDocx}
  /\ result.fileType = "pdf"

\* C6 as stated: a buffer that starts with PK is classified docx when the
\* file name ends in .docx and unknown for every other file name.
C6_AsStated ==
  (Classified /\ StartsWith(buffer, <<80, 75>>))
    => result.fileType = IF EndsWith(fileName, DocxExt) THEN "docx" ELSE "unknown"

\* C6: a buffer that starts with PK is classified docx exactly when the
\* file name ends in .docx, compared as written; under any other name it
\* is classified txt if the lower-cased name ends in .txt and the bytes
\* are valid UTF-8, and unknown otherwise.
C6_ZipByName ==
  (Classified /\ StartsWith(buffer, <<80, 75>>))
    => result.fileType =
         IF EndsWith(fileName, DocxExt) THEN "docx"
         ELSE IF EndsWith(ToLowerCase(fileName), TxtExt) /\ Utf8Valid(buffer)
           THEN "txt"
         ELSE "unknown"

\* a buffer that starts with PK was classified under the name x.DOCX, and
\* not as docx
C6_Witness ==
  /\ Classified
  /\ StartsWith(buffer, <<80, 75>>)
  /\ fileName = NameUpperDocx
  /\ result.fileType = "unknown"

\* C7 as stated: under a file name that ends in .txt a buffer that is valid
\* UTF-8 is classified txt, and one that is not valid UTF-8 is not.
C7_AsStated ==
  (Classified /\ EndsWith(fileName, TxtExt))
    => (result.fileType = "txt") = Utf8Valid(buffer)

\* C7: under a file name that ends in .txt a buffer that is valid UTF-8 and
\* does not start with %PDF is classified txt; one that is not valid UTF-8
\* is not classified txt, and the call returns.
C7_TxtByDecode ==
  (rungs = <<"validateFileType">> /\ EndsWith(fileName, TxtExt))
    => /\ Classified
       /\ (Utf8Valid(buffer) /\ ~StartsWith(buffer, <<37, 80, 68, 70>>))
            => result.fileType = "txt"
       /\ ~Utf8Valid(buffer) => result.fileType # "txt"

\* a buffer that is not valid UTF-8 was classified under the name a.txt
C7_Witness ==
  /\ Classified
  /\ fileName = NameLowerTxt
  /\ ~Utf8Valid(buffer)
  /\ result.fileType = "unknown"

\* the PDF, DOCX and TXT rules, none of which the input matches
NoRuleMatches ==
  /\ ~StartsWith(buffer, <<37, 80, 68, 70>>)
  /\ ~(StartsWith(buffer, <<80, 75>>) /\ EndsWith(fileName, DocxExt))
  /\ ~(EndsWith(ToLowerCase(fileName), TxtExt) /\ Utf8Valid(buffer))

\* C8: isValid is true exactly when fileType is pdf, docx or txt, and an
\* input that matches none of the three rules is classified invalid,
\* unknown, application/octet-stream.
C8_ValidIffKnown ==
  Classified
    => /\ result.isValid = (result.fileType \in {"pdf", "docx", "txt"})
       /\ NoRuleMatches
            => /\ result.isValid = FALSE
               /\ result.fileType = "unknown"
               /\ result.mimeType = "application/octet-stream"

\* a buffer shorter than the PDF signature was classified unknown
C8_Witness ==
  /\ Classified
  /\ buffer = FragPdfCut
  /\ NoRuleMatches
  /\ result.isValid = FALSE

\* the call is extractTextFromDocx of an empty or 3-byte buffer under the
\* name notes.docx
NotesDocxCall ==
  /\ Entered("extractTextFromDocx")
  /\ fileName = NameNotesDocx
  /\ Len(buffer) \in {0, 3}

\* C9: extractTextFromDocx of an empty or 3-byte buffer under the name
\* notes.docx throws nothing, and what it returns holds the file name in
\* its text and a tag of extractDocxFallback, not 'jszip_docx'.
C9_TinyDocx ==
  NotesDocxCall
    => /\ pc # "thrown"
       /\ pc = "done"
            => /\ result.kind = "docx"
               /\ Includes(result.text, NameNotesDocx)
               /\ result.extraction_method
                    \in {"docx_fallback", "docx_filename_fallback", "docx_error"}

\* the call of a 3-byte buffer returned the filename placeholder
C9_Witness ==
  /\ NotesDocxCall
  /\ Len(buffer) = 3
  /\ DocxReturned
  /\ result.extraction_method = "docx_filename_fallback"

\* C10: when PDFDocument.load resolved and the scan threw, extractTextFromPdf
\* still returns a result, and its metadata is the one read from the loaded
\* document.  The code does not keep it: the catch block of the scan throws
\* before the binary scan and the call rejects, the metadata with it.
C10_MetadataSurvivesScan ==
  Entered("extractWithFallbackMethod.catch")
    => /\ PdfReturned
       /\ result.metadata = metadata[1]


(***************************************************************************)
(* The ladders of extractTextFromPdf and extractTextFromDocx               *)
(***************************************************************************)

\* the last element of a sequence that has one
Last(seq) == seq[Len(seq)]

\* the primary parse threw and the try block of the scan ran to its return
ScanReturned ==
  /\ PdfReturned
  /\ Last(rungs) = "extractWithFallbackMethod"

\* C16: when the primary parse fails and the scan of the text operators
\* finds no usable text, the text extractTextFromPdf returns is the
\* placeholder that names the file.
C16_PlaceholderReached ==
  (ScanReturned /\ ScanCombinedText(buffer) = <<>>)
    => result.text = PdfPlaceholder(SafeFileName(Some(fileName)))

\* C17: when the try block of the scan throws, extractPlainTextFromBinary
\* runs to its end, its text is the single page of the result, and no error
\* is raised on the way.
C17_BinaryScanReturns ==
  Entered("extractWithFallbackMethod.catch")
    => /\ pc # "thrown"
       /\ PdfReturned
            => /\ Len(result.pages) = 1
               /\ result.pages[1].content
                    \in {extractPlainTextFromBinary(buffer, Some(fileName)),
                         extractPlainTextFromBinary(buffer, Undefined)}

\* the rungs of the two ladders, by the method or block that holds them
LadderRungs ==
  {"extractTextFromPdf", "extractWithPdfLib", "extractWithFallbackMethod.catch",
   "extractTextFromDocx", "extractDocxFallback"}

\* the rungs the call has entered, in order
RungsEntered == SelectSeq(rungs, LAMBDA rung : rung \in LadderRungs)

\* the rung ended without a text its ladder accepts: it threw, or its text
\* is shorter than the length its ladder asks of it
Failed(outcome) ==
  \/ outcome.threw
  \/ outcome.rung = "extractTextFromDocx" /\ Len(outcome.text) < DocxMinLength
  \/ outcome.rung = "extractDocxFallback"
       /\ Len(Trim(outcome.text)) < DocxFallbackMinLength

\* a rung is running or stands at an await
InFlight == pc \notin {"idle", "done", "thrown"}

\* C18: both ladders are sequential and the first success wins: a rung is
\* entered only when every rung before it has ended, by throwing or with a
\* text judged insufficient; while a rung is in flight every other rung
\* entered has ended; and the rung whose text is accepted is the last one
\* to run.
C18_Sequential ==
  /\ \A k \in 1..(Len(outcomes) - 1) : Failed(outcomes[k])
  /\ InFlight
       => /\ Len(outcomes) = Len(RungsEntered) - 1
          /\ \A k \in 1..Len(outcomes) : Failed(outcomes[k])
  /\ (pc = "done" /\ result.kind \in {"pdf", "docx"})
       => /\ outcomes # <<>>
          /\ ~Last(outcomes).threw
          /\ Last(outcomes).text = result.text
  /\ pc = "thrown" => \A k \in 1..Len(outcomes) : outcomes[k].threw

\* the ZIP/XML rung returned a text judged too short, the raw regex rung
\* did so too, and the placeholder was returned
C18_ThreeRungs ==
  /\ DocxReturned
  /\ Len(outcomes) = 3
  /\ ~outcomes[1].threw
  /\ Len(outcomes[1].text) > 0
  /\ ~outcomes[2].threw
  /\ outcomes[3].rung = "fallbackContent"

\* C19: the tag of a PDF result tells the rung that made its text: the tag
\* written for the text of the regex scan differs from the tag written for
\* the text of extractPlainTextFromBinary, be it the binary scan's or the
\* placeholder.
C19_DistinctTags ==
  ScanReturned
    => result.extraction_method
         # PdfLibResult(metadata[1],
                        ScanCatchReturn(extractPlainTextFromBinary(buffer, Some(fileName)))).extraction_method

DocxFallbackTags == {"docx_fallback", "docx_filename_fallback", "docx_error"}

\* C20: extractTextFromDocx returns the tag jszip_docx only if the archive
\* loaded, word/document.xml was there and the cleaned text has at least 10
\* characters; when loading threw, the part was absent or the text was
\* shorter, the result is that of extractDocxFallback under one of its tags.
C20_ZipTagOnlyOnSuccess ==
  DocxReturned
    => IF result.extraction_method = "jszip_docx"
         THEN /\ ZipLoadable(buffer)
              /\ rungs = <<"extractTextFromDocx">>
              /\ outcomes = <<Produced("extractTextFromDocx", result.text)>>
              /\ Len(result.text) >= 10
         ELSE /\ Failed(outcomes[1])
              /\ Last(rungs) = "extractDocxFallback"
              /\ result.extraction_method \in DocxFallbackTags
              /\ \E date \in LocaleDates, threw \in BOOLEAN :
                   result = extractDocxFallback(buffer, fileName, date, threw)

\* a loadable archive whose document.xml gave a text of 10 characters or
\* more was returned under jszip_docx
C20_ZipReturned ==
  /\ DocxReturned
  /\ result.extraction_method = "jszip_docx"
  /\ Len(result.text) >= 10

(***************************************************************************)
(* analyzeDocumentStructure                                                *)
(***************************************************************************)

\* the lines of text that are not heading lines, joined again
HeadingLinesRemoved(text) ==
  Join(SelectSeq(Split(text, Literal(<<10>>)),
                 LAMBDA line : HeadingPatternFrom(Trim(line), 1) = 0),
       <<10>>)

\* sections[].content, concatenated in order
ContentsOf(sections) ==
  Join([k \in 1..Len(sections) |-> sections[k].content], <<>>)

\* C11: for every input text, concatenating sections[].content of the result
\* of analyzeDocumentStructure in order gives the input text with only the
\* heading lines removed.
C11_SectionRoundTrip ==
  \A k \in 1..Len(analyses) :
    ContentsOf(analyses[k].structure.sections)
      = HeadingLinesRemoved(analyses[k].text)

C13_TwoSections ==
  \A k \in 1..Len(analyses) :
    analyses[k].text = TextTwoSections
      => /\ Len(analyses[k].structure.sections) = 2
         /\ analyses[k].structure.sections[1].title = LineHeadingOverview
         /\ analyses[k].structure.sections[2].title = LineHeadingBudget
         /\ analyses[k].structure.sections[1].word_count > 0
         /\ analyses[k].structure.sections[2].word_count > 0

\* the text of the two headings has been analysed and its first section
\* holds the first body line
C13_TwoSectionsSeen ==
  \E k \in 1..Len(analyses) :
    /\ analyses[k].text = TextTwoSections
    /\ analyses[k].structure.sections[1].content = LineBody \o <<10>>

(***************************************************************************)
(* The handler of POST /api/customers/rfp-analysis                         *)
(***************************************************************************)

Extractors == {"extractTextFromPdf", "extractTextFromDocx"}

\* the request carried a file and the handler has gone on to classify it
FileReceived == calls # <<>>

\* C14: the handler calls validateFileType before any extractor, and for a
\* file whose classification is not valid it calls no extractor, writes
\* nothing to globalMemoryStore or KV, and answers 400 with a message that
\* names the detected fileType.
C14_ValidateFirst ==
  /\ FileReceived => calls[1] = "validateFileType"
  /\ \A k \in 1..Len(calls) :
       calls[k] \in Extractors
         => k > 1 /\ validateFileType(buffer, fileName).isValid
  /\ (rungs # <<>> /\ rungs[1] \in Extractors) => Len(calls) = 2
  /\ (FileReceived /\ ~validateFileType(buffer, fileName).isValid)
       => /\ calls = <<"validateFileType">>
          /\ rungs \in {<<>>, <<"validateFileType">>}
          /\ store = <<>>
          /\ hpc = "responded"
               => /\ response.status = 400
                  /\ ~response.success
                  /\ Includes(response.error,
                              TypeName(validateFileType(buffer, fileName).fileType))

\* a file classified unknown has been answered with 400
C14_RejectedSeen ==
  /\ hpc = "responded"
  /\ calls = <<"validateFileType">>
  /\ result.kind = "classification"
  /\ result.fileType = "unknown"
  /\ response.status = 400

\* C15: whenever the extraction of a validated file fails, by the extractor
\* throwing or by its returning fewer than 10 characters, the handler puts
\* the basic text in its place and answers with a successful analysis.
C15_FailureStillAnalysed ==
  (/\ hpc = "responded"
   /\ Len(calls) = 2
   /\ (pc = "thrown" \/ TextTooShort(result.text)))
    => /\ response.status = 200
       /\ response.success
       /\ response.extracted_text_length = Len(BasicText(fileName, Len(buffer)))
       /\ store # <<>>

(***************************************************************************)
(* The texts of the rungs                                                  *)
(***************************************************************************)

\* the result is the placeholder if the raw regex text of the buffer is
\* empty or has fewer than 20 characters after trimming, and that text
\* under docx_fallback if not
PlaceholderIffShort(cleanText) ==
  IF Len(cleanText) = 0 \/ Len(Trim(cleanText)) < DocxFallbackMinLength
    THEN /\ result.extraction_method = "docx_filename_fallback"
         /\ Includes(result.text, fileName)
    ELSE /\ result.extraction_method = "docx_fallback"
         /\ result.text = cleanText

\* C21 as stated: whenever extractDocxFallback has returned, its result is
\* the filename placeholder exactly when the raw regex text is empty or has
\* fewer than 20 characters after trimming, and the raw regex text under
\* docx_fallback otherwise.
C21_AsStated ==
  (DocxReturned /\ Entered("extractDocxFallback"))
    => PlaceholderIffShort(RawCleanText(buffer))

\* C21: whenever extractDocxFallback has returned from its try block, its
\* result is the filename placeholder exactly when the raw regex text is
\* empty or has fewer than 20 characters after trimming, and the raw regex
\* text under docx_fallback otherwise; from its catch block it returns the
\* error text under docx_error.
C21_PlaceholderIffShort ==
  (DocxReturned /\ Entered("extractDocxFallback"))
    => IF Threw("extractDocxFallback") \in {outcomes[k] : k \in 1..Len(outcomes)}
         THEN /\ result.extraction_method = "docx_error"
              /\ result.text = DocxErrorHead \o fileName
         ELSE PlaceholderIffShort(RawCleanText(buffer))

\* the raw regex rung found 20 characters or more and returned them
C21_RawTextReturned ==
  /\ DocxReturned
  /\ result.extraction_method = "docx_fallback"
  /\ Len(result.text) >= 20

\* C22: the text of a DOCX result tagged jszip_docx is at most 50,000 units
\* long and the text of one tagged docx_fallback at most 20,000, however
\* long the document's text runs are.
C22_TextLimits ==
  DocxReturned =>
    /\ result.extraction_method = "jszip_docx" => Len(result.text) <= DocxTextLimit
    /\ result.extraction_method = "docx_fallback"
         => Len(result.text) <= DocxFallbackLimit

\* a document.xml with more text than the limit came back cut to the limit
C22_CutToLimit ==
  /\ DocxReturned
  /\ result.extraction_method = "jszip_docx"
  /\ Len(result.text) = DocxTextLimit

\* a buffer with more raw text than the limit came back cut to the limit
C22_RawCutToLimit ==
  /\ DocxReturned
  /\ result.extraction_method = "docx_fallback"
  /\ Len(result.text) = DocxFallbackLimit

\* the primary rung returned for a page count of zero or for an empty text
PrimaryDegenerate ==
  /\ PdfReturned
  /\ result.extraction_method = "pdf-parse"
  /\ (result.metadata.page_count = 0 \/ Len(result.text) = 0)

\* C23: when pdf-parse reports a page count of zero or an empty text, the
\* result is treated as a single page: pages has exactly one element.  The
\* code does not keep it: the loop over the pages does not run for a page
\* count of zero and pushes no slice of an empty text, so pages is empty.
C23_DegenerateIsOnePage == PrimaryDegenerate => Len(result.pages) = 1

\* the primary rung returned
PrimaryReturned == PdfReturned /\ result.extraction_method = "pdf-parse"

\* ceil(L / N) for N > 0, by its definition: the least t with t * N >= L
CeilOf(L, N) == CHOOSE t \in 0..L : t * N >= L /\ (t = 0 \/ (t - 1) * N < L)

\* the units of text in the range [i * T, min((i + 1) * T, L))
SliceRange(L, T, i) == {j \in 1..L : i * T < j /\ j <= Min((i + 1) * T, L)}

\* the slice of text over that range, trimmed
SliceOf(text, T, i) ==
  Trim([k \in 1..Cardinality(SliceRange(Len(text), T, i)) |-> text[i * T + k]])

\* the ranges of the N slices do not overlap and cover every unit of the text
SlicesPartition(L, N, T) ==
  \A j \in 1..L : Cardinality({i \in 0..(N - 1) : j \in SliceRange(L, T, i)}) = 1

\* pages are the trimmed slices that are not empty, under the numbers of
\* their slices, in increasing order
PagesAreSlices(pages, text, N, T) ==
  /\ Len(pages) <= N
  /\ \A k \in 1..Len(pages) :
       /\ pages[k].page_number \in 1..N
       /\ pages[k].content = SliceOf(text, T, pages[k].page_number - 1)
       /\ k > 1 => pages[k - 1].page_number < pages[k].page_number
  /\ \A i \in 0..(N - 1) :
       Len(SliceOf(text, T, i)) > 0
         <=> \E k \in 1..Len(pages) : pages[k].page_number = i + 1

OptionalFields ==
  {"title", "author", "subject", "creator", "creation_date", "modification_date"}

\* C25: in every PDF result each optional metadata field is undefined or a
\* string that is not empty.
C25_NoEmptyMetadata ==
  PdfReturned =>
    \A field \in OptionalFields :
      \/ result.metadata[field] = Undefined
      \/ Len(result.metadata[field][1]) > 0

\* a PDF result of the pdf-lib rung with every optional field left out
C25_FieldsOmitted ==
  /\ PdfReturned
  /\ result.extraction_method # "pdf-parse"
  /\ \A field \in OptionalFields : result.metadata[field] = Undefined

\* the categories of estimateDocumentType in the order it tries them
TypePriority == <<"rfp", "proposal", "report", "presentation">>

KeywordsOf(category) ==
  CASE category = "rfp" -> RfpKeywords
    [] category = "proposal" -> ProposalKeywords
    [] category = "report" -> ReportKeywords
    [] category = "presentation" -> PresentationKeywords

\* a keyword of the category occurs in the lower-cased text or file name of
\* the call a
Occurs(category, a) ==
  \E keyword \in KeywordsOf(category) :
    \/ Includes(ToLowerCase(a.text), keyword)
    \/ Includes(ToLowerCase(a.fileName), keyword)

\* C26: the document type is the first of rfp, proposal, report,
\* presentation with a keyword in the lower-cased text or file name, and
\* 'other' exactly when no category has one.
C26_FirstCategoryWins ==
  \A k \in 1..Len(analyses) :
    LET TypeIs(a) ==
          IF \E i \in 1..4 : Occurs(TypePriority[i], a)
            THEN \E i \in 1..4 :
                   /\ Occurs(TypePriority[i], a)
                   /\ \A j \in 1..(i - 1) : ~Occurs(TypePriority[j], a)
                   /\ a.structure.document_type = TypePriority[i]
            ELSE a.structure.document_type = "other"
    IN  TypeIs(analyses[k])

\* a text with a proposal keyword before an RFP keyword was classified rfp
C26_RfpOverProposal ==
  \E k \in 1..Len(analyses) :
    /\ analyses[k].text = WordProposalTitle \o <<32>> \o WordRfpUpper
    /\ analyses[k].fileName = NameNotesDocx
    /\ analyses[k].structure.document_type = "rfp"

\* no line of text matches a heading pattern
NoHeadingLine(text) ==
  LET None(lines) ==
        \A n \in 1..Len(lines) : HeadingPatternFrom(Trim(lines[n]), 1) = 0
  IN  None(Split(text, Literal(<<10>>)))

\* C27: for a text without a heading line identifyDocumentSections returns
\* exactly one section, whose content is the text unchanged.  The code does
\* not keep it: the one section holds the lines that are not blank, each with
\* a line feed after it, so a text whose last line has none comes back longer.
C27_WholeTextKept ==
  \A k \in 1..Len(analyses) :
    NoHeadingLine(analyses[k].text)
      => /\ Len(analyses[k].structure.sections) = 1
         /\ analyses[k].structure.sections[1].content = analyses[k].text

\* a call of estimatePageBreaks has returned
PageBreaksReturned == pc = "done" /\ result.kind = "pageBreaks"

\* the pieces of text.split(pageBreakPatterns[n - 1]) longer than
\* PageMinLength after trimming
LongPieces(text, n) ==
  SelectSeq(Split(text, PageBreak(n)), LAMBDA p : Len(Trim(p)) > PageMinLength)

\* C28: estimatePageBreaks returns the long pieces of the split at the first
\* pattern, in order, that yields more of them than the one page it starts
\* with, and the whole text as a single page if no pattern does; it never
\* returns an empty list.
C28_FirstAdoptedSplit ==
  PageBreaksReturned =>
    LET Adopted(n) == Len(LongPieces(result.text, n)) > 1
    IN  /\ Len(result.pages) >= 1
        /\ IF \E n \in 1..4 : Adopted(n)
             THEN \E n \in 1..4 :
                    /\ Adopted(n)
                    /\ \A m \in 1..(n - 1) : ~Adopted(m)
                    /\ result.pages = LongPieces(result.text, n)
             ELSE result.pages = <<result.text>>

\* a text two patterns would split came back split at the first only
C28_StoppedAtFirst ==
  /\ PageBreaksReturned
  /\ result.text = TextTwoPatterns
  /\ Len(result.pages) = 2

\* the words extractKeyTopics counts in the text
CountedWords(text) == TopicWords(TopicText(text))

\* C29: extractKeyTopics returns at most 10 tokens, all different, each
\* longer than 2 characters and no stop word, in the order of non-increasing
\* frequency; no token left out is more frequent than one returned.
C29_MostFrequentTopics ==
  \A k \in 1..Len(analyses) :
    LET Holds(topics, words) ==
          /\ Len(topics) <= 10
          /\ \A i \in 1..Len(topics) :
               /\ Len(topics[i]) > 2
               /\ topics[i] \notin StopWords
               /\ \E n \in 1..Len(words) : words[n] = topics[i]
               /\ \A j \in 1..(i - 1) :
                    /\ topics[j] # topics[i]
                    /\ TopicCount(words, topics[j]) >= TopicCount(words, topics[i])
               /\ \A n \in 1..Len(words) :
                    (\A j \in 1..Len(topics) : topics[j] # words[n])
                      => TopicCount(words, words[n]) <= TopicCount(words, topics[i])
    IN  Holds(analyses[k].structure.key_topics, CountedWords(analyses[k].text))

\* of twelve words the last, the only one that occurs twice, came first of
\* ten
C29_RepeatedWordFirst ==
  \E k \in 1..Len(analyses) :
    /\ analyses[k].text = TopicBase \o <<32>> \o TopicWord(12)
    /\ Len(analyses[k].structure.key_topics) = 10
    /\ analyses[k].structure.key_topics[1] = TopicWord(12)

\* the handler has received a file that validateFileType classifies as txt
TxtReceived ==
  FileReceived /\ validateFileType(buffer, fileName).fileType = "txt"

=============================================================================
